---- MODULE Spec2Model ----
(***************************************************************************)
(* A model of the drawing engine of draw-board: the useDraw hook           *)
(* (src/unnamed/part_003, lines 874-2066), as it is driven by the board    *)
(* page (src/unnamed/part_005).                                            *)
(*                                                                         *)
(* Conventions.                                                            *)
(*  - A JavaScript number is an exact rational <<n, d>> in lowest terms    *)
(*    with d > 0 (floating-point rounding is not modelled).                *)
(*  - Array indices are the source's 0-based indices; At(s, i) reads       *)
(*    s[i] of the source.                                                  *)
(*  - null is NULL (the empty function), so that "'start' in current" is   *)
(*    "start" \in DOMAIN current.                                          *)
(*  - Every drawing object carries a field ref: the identity of the        *)
(*    JavaScript object.  Two entries with the same ref (one in objects,   *)
(*    one in a history snapshot) are one object of the heap, so an         *)
(*    in-place write through one is seen through the other.                *)
(*  - A handler runs on the state of the latest React render and its       *)
(*    state updates are applied together: one handler is one action, the   *)
(*    effects that React runs after the re-render included.                *)
(***************************************************************************)
EXTENDS Integers, Sequences, FiniteSets, TLC

\* ---------------------------------------------------------------- bounds
\* The longest scene the main specification builds.
MaxObjects == 2
\* The longest history (number of snapshots) the main specification builds.
MaxHistory == 4
\* The most points a freehand stroke collects.
MaxPoints == 2

\* ------------------------------------------------------------- numbers
NULL == <<>>

Abs(i) == IF i < 0 THEN -i ELSE i

RECURSIVE GCD(_, _)
GCD(a, b) == IF b = 0 THEN a ELSE GCD(b, a % b)

\* The rational n/d in lowest terms, d # 0.
Rat(n, d) ==
    LET g == GCD(Abs(n), Abs(d))
        s == IF d < 0 THEN -1 ELSE 1
    IN  <<(s * n) \div g, (s * d) \div g>>

I(i) == <<i, 1>>
QAdd(a, b) == Rat(a[1] * b[2] + b[1] * a[2], a[2] * b[2])
QSub(a, b) == Rat(a[1] * b[2] - b[1] * a[2], a[2] * b[2])
QMul(a, b) == Rat(a[1] * b[1], a[2] * b[2])
QDiv(a, b) == Rat(a[1] * b[2], a[2] * b[1])
QLe(a, b) == a[1] * b[2] <= b[1] * a[2]
QLt(a, b) == a[1] * b[2] < b[1] * a[2]
QMin(a, b) == IF QLe(a, b) THEN a ELSE b
QMax(a, b) == IF QLe(a, b) THEN b ELSE a
QAbs(a) == <<Abs(a[1]), a[2]>>

\* floor(sqrt(k)) for a natural k, by bisection on lo..hi.
RECURSIVE ISqrtIn(_, _, _)
ISqrtIn(k, lo, hi) ==
    IF lo >= hi THEN lo
    ELSE LET mid == (lo + hi + 1) \div 2
         IN  IF mid * mid <= k THEN ISqrtIn(k, mid, hi) ELSE ISqrtIn(k, lo, mid - 1)

\* 46340 is the greatest integer whose square is below 2^31.
ISqrt(k) == ISqrtIn(k, 0, IF k < 46340 THEN k ELSE 46340)

\* Math.sqrt: exact on the square of a rational, and otherwise the value
\* rounded down to a thousandth.
QSqrt(a) ==
    LET k == a[1] * a[2]
        r == ISqrt(k)
    IN  IF r * r = k THEN Rat(r, a[2])
        ELSE Rat(ISqrt(k * 1000000), a[2] * 1000)

Pt(px, py) == [x |-> px, y |-> py]
IPt(ix, iy) == [x |-> I(ix), y |-> I(iy)]

At(s, i) == s[i + 1]
Includes(s, v) == \E k \in 1..Len(s) : s[k] = v
Filter(s, Keep(_)) == SelectSeq(s, Keep)
Has(r, f) == f \in DOMAIN r

\* ------------------------------------------------------------ geometry
\* A faulty variant of getShapeBounds: the box of start and end for a
\* circle too.
getShapeBoundsBox(shape) ==
    [x |-> QMin(shape.start.x, shape.end.x), y |-> QMin(shape.start.y, shape.end.y),
     width |-> QAbs(QSub(shape.end.x, shape.start.x)),
     height |-> QAbs(QSub(shape.end.y, shape.start.y))]

getShapeBounds(shape) ==
    IF shape.type = "circle"
    THEN LET width == QSub(shape.end.x, shape.start.x)
             height == QSub(shape.end.y, shape.start.y)
             radius == QSqrt(QAdd(QMul(width, width), QMul(height, height)))
         IN  [x |-> QSub(shape.start.x, radius),
              y |-> QSub(shape.start.y, radius),
              width |-> QMul(radius, I(2)),
              height |-> QMul(radius, I(2))]
    ELSE LET minX == QMin(shape.start.x, shape.end.x)
             minY == QMin(shape.start.y, shape.end.y)
             maxX == QMax(shape.start.x, shape.end.x)
             maxY == QMax(shape.start.y, shape.end.y)
         IN  [x |-> minX, y |-> minY,
              width |-> QSub(maxX, minX), height |-> QSub(maxY, minY)]

RECURSIVE FoldMin(_, _, _)
FoldMin(s, k, acc) == IF k > Len(s) THEN acc ELSE FoldMin(s, k + 1, QMin(acc, s[k]))

RECURSIVE FoldMax(_, _, _)
FoldMax(s, k, acc) == IF k > Len(s) THEN acc ELSE FoldMax(s, k + 1, QMax(acc, s[k]))

getStrokeBounds(points) ==
    IF Len(points) = 0
    THEN [x |-> I(0), y |-> I(0), width |-> I(0), height |-> I(0)]
    ELSE LET xs == [k \in 1..Len(points) |-> points[k].x]
             ys == [k \in 1..Len(points) |-> points[k].y]
             minX == FoldMin(xs, 1, xs[1])
             minY == FoldMin(ys, 1, ys[1])
             maxX == FoldMax(xs, 1, xs[1])
             maxY == FoldMax(ys, 1, ys[1])
         IN  [x |-> minX, y |-> minY,
              width |-> QSub(maxX, minX), height |-> QSub(maxY, minY)]

\* The number of characters of the strings the model types.
TextLength(text) ==
    CASE text = "" -> 0
      [] text = " " -> 1
      [] text = "hi" -> 2
      [] OTHER -> 3

\* ctx.measureText(text).width for the font "<size>px <font>": the canvas is
\* outside the program; half the font size per character stands for it.
measureText(text, size) == QDiv(QMul(I(TextLength(text)), size), I(2))

getTextBounds(text) ==
    [x |-> text.position.x,
     y |-> QSub(text.position.y, text.size),
     width |-> measureText(text.text, text.size),
     height |-> QDiv(QMul(text.size, I(12)), I(10))]

isPointInBounds(point, bounds) ==
    /\ QLe(bounds.x, point.x)
    /\ QLe(point.x, QAdd(bounds.x, bounds.width))
    /\ QLe(bounds.y, point.y)
    /\ QLe(point.y, QAdd(bounds.y, bounds.height))

\* A faulty variant of isBoundsInSelection: full containment.
isBoundsInsideSelection(bounds, selection) ==
    /\ QLe(QMin(selection.start.x, selection.end.x), bounds.x)
    /\ QLe(QAdd(bounds.x, bounds.width), QMax(selection.start.x, selection.end.x))
    /\ QLe(QMin(selection.start.y, selection.end.y), bounds.y)
    /\ QLe(QAdd(bounds.y, bounds.height), QMax(selection.start.y, selection.end.y))

isBoundsInSelection(bounds, selection) ==
    LET minX == QMin(selection.start.x, selection.end.x)
        maxX == QMax(selection.start.x, selection.end.x)
        minY == QMin(selection.start.y, selection.end.y)
        maxY == QMax(selection.start.y, selection.end.y)
    IN  /\ QLe(minX, QAdd(bounds.x, bounds.width))
        /\ QLe(bounds.x, maxX)
        /\ QLe(minY, QAdd(bounds.y, bounds.height))
        /\ QLe(bounds.y, maxY)

\* The bounds of one scene object, as every caller computes them.
ObjectBounds(obj) ==
    CASE obj.type = "stroke" -> getStrokeBounds(obj.data.points)
      [] obj.type = "shape" -> getShapeBounds(obj.data)
      [] obj.type = "text" -> getTextBounds(obj.data)

\* --------------------------------------------------------------- state
VARIABLES
    objects,          \* useState<DrawingObject[]>([])
    current,          \* the stroke, shape or selection box in progress, or NULL
    isDrawing,
    history,          \* useState<DrawingObject[][]>([[]])
    historyIndex,     \* 0-based cursor into history
    isDragging,
    dragOffset,
    selectedIndices,  \* 0-based scene indices, in selection order
    isEditingText,
    textPosition,
    isResizing,
    resizeHandle,
    initialBounds,
    initialMousePos,
    resizeStartData,  \* [isArray, items]: the array, or the bare object, stored
    canvasOffset,
    zoom,
    isPanning,
    panStart,
    tool,             \* the options of the hook, owned by the page
    color,
    size,
    backgroundColor,
    canvas,           \* ref.current is attached
    mounted,          \* the page is mounted (no render has thrown)
    needsRender,      \* needsRender.current
    pendingFrame,     \* the closure of the render the pending frame will run
    viewRef,          \* zoomRef.current, offsetRef.current; due: a render is pending
    screen,           \* what the canvas shows and the frames asked for, or NULL
    gh                \* bookkeeping of the properties; no handler reads it

drawVars == <<current, isDrawing>>
dragVars == <<isDragging, dragOffset>>
resizeVars == <<isResizing, resizeHandle, initialBounds, initialMousePos, resizeStartData>>
panVars == <<isPanning, panStart>>
gestureVars == <<drawVars, dragVars, resizeVars, panVars>>
textVars == <<isEditingText, textPosition>>
viewVars == <<canvasOffset, zoom>>
optionVars == <<tool, color, size, backgroundColor, canvas, mounted>>
frameVars == <<needsRender, pendingFrame, viewRef, screen>>
engineVars == <<objects, history, historyIndex, selectedIndices, gestureVars, textVars,
                viewVars, optionVars, frameVars>>
vars == <<engineVars, gh>>

NoHandle == "null"
NoIndex == -1
Array(items) == [isArray |-> TRUE, items |-> items]

FreehandTools == {"pen", "pencil", "eraser", "highlighter"}
ShapeTools == {"rectangle", "circle", "line", "arrow"}

\* ------------------------------------------------------- object identity
RefsOf(objs) == {objs[k].ref : k \in 1..Len(objs)}
HistoryRefs(hist) == UNION {RefsOf(hist[k]) : k \in 1..Len(hist)}
FrameRefs == IF pendingFrame = NULL THEN {} ELSE pendingFrame.erasers

\* The identity a newly allocated object gets: one no reachable object has.
FreshRef(used) ==
    CHOOSE r \in 0..Cardinality(used) :
        r \notin used /\ \A q \in 0..(r - 1) : q \in used

\* ---------------------------------------------------------------- render
EraserRefs(objs) ==
    {objs[k].ref : k \in {j \in 1..Len(objs) :
        objs[j].type = "stroke" /\ objs[j].data.tool = "eraser"}}

\* item.data.color = backgroundColor, written in place: every array that
\* holds the object sees it.
Recolor(objs, refs, bg) ==
    [k \in 1..Len(objs) |->
        IF objs[k].ref \in refs THEN [objs[k] EXCEPT !.data.color = bg] ELSE objs[k]]

RecolorAll(hist, refs, bg) == [k \in 1..Len(hist) |-> Recolor(hist[k], refs, bg)]

\* What render() paints: the objects, an eraser stroke in the background
\* colour whatever its own, the object in progress, the selection and the
\* viewport.
View(objs, cur, sel, z, offset) ==
    [objects |-> [k \in 1..Len(objs) |->
                    IF objs[k].type = "stroke" /\ objs[k].data.tool = "eraser"
                    THEN [objs[k] EXCEPT !.data.color = ""] ELSE objs[k]],
     current |-> cur, selectedIndices |-> sel, zoom |-> z, canvasOffset |-> offset]

\* The canvas is watched in the specifications of rendering only: screen is
\* NULL in the others, and so is the view a closure holds.
Watched == screen # NULL

\* What a render closure holds of the state it was created in.
Closure(objs, bg, view) ==
    [erasers |-> EraserRefs(objs), bg |-> bg, view |-> IF Watched THEN view ELSE NULL]

\* The most calls of scheduleRender() counted between two frames.
MaxCalls == 3

\* A faulty variant of requestsFrame: every call asks for a frame.
requestsFrameAlways(flag) == TRUE

\* scheduleRender(), called with needsRender.current = flag, asks for an
\* animation frame: if (!needsRender.current).
requestsFrame(flag) == ~flag

\* The canvas after a handler: calls calls of scheduleRender(), asked of
\* them asking for a frame, and a render() of view if painted.
Watch(calls, asked, painted, view) ==
    IF ~Watched THEN NULL
    ELSE [shown |-> IF painted THEN view ELSE screen.shown,
          pending |-> screen.pending + asked,
          calls |-> IF screen.calls + calls > MaxCalls THEN MaxCalls
                    ELSE screen.calls + calls]

\* The effect that runs after every render: zoomRef.current = zoom;
\* offsetRef.current = canvasOffset.
Rendered(z, offset) == [zoom |-> z, canvasOffset |-> offset, due |-> FALSE]

\* The end of a handler: React renders and runs the effects.  newObjects
\* and newHistory are the values the handler set.  direct: the handler called scheduleRender() itself (the closure of the
\* render it ran in).  e1: a dependency of the effect that calls
\* scheduleRender() changed.  e2: a dependency of the effect that calls
\* resizeCanvas(), and so render(), changed.
Finish(newObjects, newHistory, newBg, direct, e1, e2) ==
    LET r1 == direct /\ requestsFrame(needsRender)
        nr1 == needsRender \/ direct
        pf1 == IF r1
               THEN Closure(objects, backgroundColor,
                            View(objects, current, selectedIndices, zoom, canvasOffset))
               ELSE pendingFrame
        r2 == e1 /\ requestsFrame(nr1)
        nr2 == nr1 \/ e1
        pf2 == IF r2
               THEN Closure(newObjects, newBg,
                            View(newObjects, current', selectedIndices', zoom', canvasOffset'))
               ELSE pf1
        refs == IF e2 /\ canvas THEN EraserRefs(newObjects) ELSE {}
    IN  /\ objects' = Recolor(newObjects, refs, newBg)
        /\ history' = RecolorAll(newHistory, refs, newBg)
        /\ needsRender' = nr2
        /\ pendingFrame' = pf2
        /\ viewRef' = Rendered(zoom', canvasOffset')
        /\ screen' = Watch((IF direct THEN 1 ELSE 0) + (IF e1 THEN 1 ELSE 0),
                           (IF r1 THEN 1 ELSE 0) + (IF r2 THEN 1 ELSE 0),
                           e2 /\ canvas,
                           View(newObjects, current', selectedIndices', zoom', canvasOffset'))

\* The animation frame that scheduleRender() asked for.
runFrame ==
    /\ needsRender
    /\ LET refs == IF canvas THEN pendingFrame.erasers ELSE {}
       IN  /\ objects' = Recolor(objects, refs, pendingFrame.bg)
           /\ history' = RecolorAll(history, refs, pendingFrame.bg)
    /\ needsRender' = FALSE
    /\ pendingFrame' = NULL
    /\ screen' = IF ~Watched THEN NULL
                 ELSE [shown |-> IF canvas THEN pendingFrame.view ELSE screen.shown,
                       pending |-> screen.pending - 1, calls |-> 0]
    /\ UNCHANGED viewRef
    /\ UNCHANGED <<historyIndex, selectedIndices, gestureVars, textVars, viewVars,
                   optionVars>>

\* ------------------------------------------------------------- the hook
\* A faulty variant of screenToCanvas: the screen point itself.
screenToCanvasRaw(screenX, screenY) == Pt(screenX, screenY)

screenToCanvas(screenX, screenY) ==
    Pt(QDiv(QSub(screenX, canvasOffset.x), zoom),
       QDiv(QSub(screenY, canvasOffset.y), zoom))


\* The bounds getPosition and getObjectsInSelection compute for objects[i]:
\* a text has none without a 2d context.
HasBounds(obj) == obj.type # "text" \/ canvas

\* A faulty variant of getPositionIn: the loop runs from the first object.
getPositionLowest(objs, ctx, x, y) ==
    LET hits == {i \in 0..(Len(objs) - 1) :
                    /\ (At(objs, i).type # "text" \/ ctx)
                    /\ isPointInBounds(Pt(x, y), ObjectBounds(At(objs, i)))}
    IN  IF hits = {} THEN NoIndex ELSE CHOOSE m \in hits : \A n \in hits : m <= n

\* The loop of getPosition from index i down: the first object whose bounds
\* hold the point is returned, a text without a 2d context is skipped.
RECURSIVE getPositionFrom(_, _, _, _, _)
getPositionFrom(objs, ctx, x, y, i) ==
    IF i < 0 THEN NoIndex
    ELSE IF /\ (At(objs, i).type # "text" \/ ctx)
            /\ isPointInBounds(Pt(x, y), ObjectBounds(At(objs, i)))
         THEN i
         ELSE getPositionFrom(objs, ctx, x, y, i - 1)

\* getPosition over the scene objs, ctx telling whether the canvas gives a
\* 2d context; null is NoIndex.
getPositionIn(objs, ctx, x, y) == getPositionFrom(objs, ctx, x, y, Len(objs) - 1)

getPosition(x, y) == getPositionIn(objects, canvas, x, y)

getObjectsInSelection(selection) ==
    LET Hit(i) == /\ HasBounds(At(objects, i))
                  /\ isBoundsInSelection(ObjectBounds(At(objects, i)), selection)
        indices == [k \in 1..Len(objects) |-> k - 1]
    IN  SelectSeq(indices, Hit)

\* The union of a list of bounds; NULL for the empty list.
UnionBounds(bs) ==
    IF Len(bs) = 0 THEN NULL
    ELSE [x |-> FoldMin([k \in 1..Len(bs) |-> bs[k].x], 1, bs[1].x),
          y |-> FoldMin([k \in 1..Len(bs) |-> bs[k].y], 1, bs[1].y),
          width |-> QSub(FoldMax([k \in 1..Len(bs) |-> QAdd(bs[k].x, bs[k].width)], 1,
                                 QAdd(bs[1].x, bs[1].width)),
                         FoldMin([k \in 1..Len(bs) |-> bs[k].x], 1, bs[1].x)),
          height |-> QSub(FoldMax([k \in 1..Len(bs) |-> QAdd(bs[k].y, bs[k].height)], 1,
                                  QAdd(bs[1].y, bs[1].height)),
                          FoldMin([k \in 1..Len(bs) |-> bs[k].y], 1, bs[1].y))]

\* The bounds of the objects at the indices that have bounds (a text has
\* none without a 2d context).
BoundsAt(objs, bounded) == [k \in 1..Len(bounded) |-> ObjectBounds(At(objs, bounded[k]))]

\* A faulty variant of getGroupBounds: the bounds of the first member.
getGroupBoundsFirst(objs, indices, ctx) ==
    LET bs == BoundsAt(objs, SelectSeq(indices, LAMBDA idx : At(objs, idx).type # "text" \/ ctx))
    IN  IF Len(bs) = 0 THEN NULL ELSE bs[1]

getGroupBounds(objs, indices, ctx) ==
    IF Len(indices) = 0 THEN NULL
    ELSE UnionBounds(BoundsAt(objs,
            SelectSeq(indices, LAMBDA idx : At(objs, idx).type # "text" \/ ctx)))

handleSize == 8
handleMargin == 5

getResizeHandle(x, y, bounds) ==
    LET tolerance == I(handleSize)
        Near(cx, cy) == /\ QLe(QAbs(QSub(x, cx)), tolerance)
                        /\ QLe(QAbs(QSub(y, cy)), tolerance)
        left == QSub(bounds.x, I(handleMargin))
        top == QSub(bounds.y, I(handleMargin))
        right == QAdd(QAdd(bounds.x, bounds.width), I(handleMargin))
        bottom == QAdd(QAdd(bounds.y, bounds.height), I(handleMargin))
    IN  CASE Near(left, top) -> "top-left"
          [] Near(right, top) -> "top-right"
          [] Near(left, bottom) -> "bottom-left"
          [] Near(right, bottom) -> "bottom-right"
          [] OTHER -> NoHandle

\* Helper: scale a point relative to an anchor
scalePoint(point, anchor, scaleX, scaleY) ==
    Pt(QAdd(anchor.x, QMul(QSub(point.x, anchor.x), scaleX)),
       QAdd(anchor.y, QMul(QSub(point.y, anchor.y), scaleY)))

minFontSize == 8
maxFontSize == 200

\* Helper: resize a single DrawingObject (a new object; the caller names it).
resizeObject(originalObj, newBounds, initBounds, scaleX, scaleY, anchor) ==
    CASE originalObj.type = "stroke" ->
            [originalObj EXCEPT !.data.points =
                [k \in 1..Len(originalObj.data.points) |->
                    scalePoint(originalObj.data.points[k], anchor, scaleX, scaleY)]]
      [] originalObj.type = "shape" ->
            [originalObj EXCEPT
                !.data.start = scalePoint(originalObj.data.start, anchor, scaleX, scaleY),
                !.data.end = scalePoint(originalObj.data.end, anchor, scaleX, scaleY)]
      [] originalObj.type = "text" ->
            LET avgScale == QDiv(QAdd(scaleX, scaleY), I(2))
            IN  [originalObj EXCEPT
                    !.data.position =
                        scalePoint(originalObj.data.position, anchor, scaleX, scaleY),
                    !.data.size = QMax(I(minFontSize),
                        QMin(I(maxFontSize), QMul(originalObj.data.size, avgScale)))]
      [] OTHER -> originalObj

\* The corner opposite the handle.
ResizeAnchor(handle, b) ==
    CASE handle = "top-left" -> Pt(QAdd(b.x, b.width), QAdd(b.y, b.height))
      [] handle = "top-right" -> Pt(b.x, QAdd(b.y, b.height))
      [] handle = "bottom-left" -> Pt(QAdd(b.x, b.width), b.y)
      [] OTHER -> Pt(b.x, b.y)

minSize == 10
minScale == <<1, 5>>
maxScale == <<5, 1>>
\* A faulty variant of ClampScale: no clamp.
ClampScaleLoose(q) == q

ClampScale(q) == QMax(minScale, QMin(maxScale, q))

\* The scale factors performResize applies for a group (more than one index).
GroupScale(x, y) ==
    LET anchor == ResizeAnchor(resizeHandle, initialBounds)
        newWidth == QMax(I(minSize), QAbs(QSub(x, anchor.x)))
        newHeight == QMax(I(minSize), QAbs(QSub(y, anchor.y)))
    IN  [anchor |-> anchor,
         newBounds |-> [x |-> QMin(anchor.x, x), y |-> QMin(anchor.y, y),
                        width |-> newWidth, height |-> newHeight],
         scaleX |-> ClampScale(QDiv(newWidth, initialBounds.width)),
         scaleY |-> ClampScale(QDiv(newHeight, initialBounds.height))]

\* The scale factors performResize applies for a single selected object.
SingleScale(x, y) ==
    LET b == initialBounds
        deltaX == QSub(x, initialMousePos.x)
        deltaY == QSub(y, initialMousePos.y)
        m == I(minSize)
        movedX == QMin(QAdd(b.x, deltaX), QSub(QAdd(b.x, b.width), m))
        movedY == QMin(QAdd(b.y, deltaY), QSub(QAdd(b.y, b.height), m))
        newBounds ==
            CASE resizeHandle = "top-left" ->
                    [x |-> movedX, y |-> movedY,
                     width |-> QMax(m, QSub(b.width, deltaX)),
                     height |-> QMax(m, QSub(b.height, deltaY))]
              [] resizeHandle = "top-right" ->
                    [x |-> b.x, y |-> movedY,
                     width |-> QMax(m, QAdd(b.width, deltaX)),
                     height |-> QMax(m, QSub(b.height, deltaY))]
              [] resizeHandle = "bottom-left" ->
                    [x |-> movedX, y |-> b.y,
                     width |-> QMax(m, QSub(b.width, deltaX)),
                     height |-> QMax(m, QAdd(b.height, deltaY))]
              [] resizeHandle = "bottom-right" ->
                    [x |-> b.x, y |-> b.y,
                     width |-> QMax(m, QAdd(b.width, deltaX)),
                     height |-> QMax(m, QAdd(b.height, deltaY))]
              [] OTHER -> b
    IN  [anchor |-> ResizeAnchor(resizeHandle, b),
         newBounds |-> newBounds,
         scaleX |-> IF QLt(I(0), b.width)
                    THEN ClampScale(QDiv(newBounds.width, b.width)) ELSE I(1),
         scaleY |-> IF QLt(I(0), b.height)
                    THEN ClampScale(QDiv(newBounds.height, b.height)) ELSE I(1)]

\* A faulty variant of StartDataAt: the live object, not the captured copy.
StartDataLive(i) ==
    IF i < Len(selectedIndices) /\ At(selectedIndices, i) < Len(objects)
    THEN At(objects, At(selectedIndices, i)) ELSE NULL

\* resizeStartData.length and resizeStartData[i]: undefined (-1, NULL) on the
\* bare object the single-selection branch of onStartDrawing stores.
StartDataLength == IF resizeStartData.isArray THEN Len(resizeStartData.items) ELSE -1
StartDataAt(i) ==
    IF resizeStartData.isArray /\ i < Len(resizeStartData.items)
    THEN At(resizeStartData.items, i) ELSE NULL

\* The refs a handler that replaces the selected objects must not give to
\* the new objects: those of the objects that stay reachable.
KeptRefs ==
    HistoryRefs(history) \cup FrameRefs \cup
    {At(objects, i).ref : i \in {j \in 0..(Len(objects) - 1) : ~Includes(selectedIndices, j)}}

\* A selected object with no captured original is left in place.
ResizeKeptRefs ==
    KeptRefs \cup
    {At(objects, At(selectedIndices, i)).ref :
        i \in {j \in 0..(Len(selectedIndices) - 1) :
                  StartDataAt(j) = NULL /\ At(selectedIndices, j) < Len(objects)}}

\* selectedIndices.forEach((idx, i) => updatedObjects[idx] = resizeObject(resizeStartData[i], ...))
RECURSIVE ResizeEach(_, _, _, _)
ResizeEach(updatedObjects, i, used, sc) ==
    IF i >= Len(selectedIndices) THEN updatedObjects
    ELSE LET idx == At(selectedIndices, i)
             originalObj == StartDataAt(i)
         IN  IF originalObj = NULL THEN ResizeEach(updatedObjects, i + 1, used, sc)
             ELSE LET r == FreshRef(used)
                      resized == resizeObject(originalObj, sc.newBounds, initialBounds,
                                              sc.scaleX, sc.scaleY, sc.anchor)
                  IN  ResizeEach([updatedObjects EXCEPT ![idx + 1] = [resized EXCEPT !.ref = r]],
                                 i + 1, used \cup {r}, sc)

\* performResize(x, y): whether it called setObjects, and with what.
performResize(x, y) ==
    IF \/ ~isResizing \/ Len(selectedIndices) = 0 \/ resizeHandle = NoHandle
       \/ initialBounds = NULL \/ initialMousePos = NULL \/ ~canvas
    THEN [set |-> FALSE, objects |-> objects]
    ELSE IF Len(selectedIndices) > 1
    THEN [set |-> TRUE, objects |-> ResizeEach(objects, 0, ResizeKeptRefs, GroupScale(x, y))]
    ELSE IF Len(selectedIndices) = 1 /\ StartDataLength = 1
    THEN [set |-> TRUE, objects |-> ResizeEach(objects, 0, ResizeKeptRefs, SingleScale(x, y))]
    ELSE [set |-> FALSE, objects |-> objects]

\* A faulty variant of Translate: of a stroke only the first point is kept.
TranslateFirst(obj, offsetX, offsetY) ==
    LET Move(p) == Pt(QAdd(p.x, offsetX), QAdd(p.y, offsetY))
    IN  CASE obj.type = "stroke" ->
                [obj EXCEPT !.data.points = <<Move(obj.data.points[1])>>]
          [] obj.type = "shape" ->
                [obj EXCEPT !.data.start = Move(obj.data.start),
                            !.data.end = Move(obj.data.end)]
          [] obj.type = "text" ->
                [obj EXCEPT !.data.position = Move(obj.data.position)]
          [] OTHER -> obj

Translate(obj, offsetX, offsetY) ==
    LET Move(p) == Pt(QAdd(p.x, offsetX), QAdd(p.y, offsetY))
    IN  CASE obj.type = "stroke" ->
                [obj EXCEPT !.data.points =
                    [k \in 1..Len(obj.data.points) |-> Move(obj.data.points[k])]]
          [] obj.type = "shape" ->
                [obj EXCEPT !.data.start = Move(obj.data.start),
                            !.data.end = Move(obj.data.end)]
          [] obj.type = "text" ->
                [obj EXCEPT !.data.position = Move(obj.data.position)]
          [] OTHER -> obj

\* selectedIndices.forEach(index => newObjects[index] = a moved copy)
RECURSIVE MoveEach(_, _, _, _, _)
MoveEach(newObjects, k, used, offsetX, offsetY) ==
    IF k >= Len(selectedIndices) THEN newObjects
    ELSE LET index == At(selectedIndices, k)
         IN  IF index >= Len(newObjects) THEN MoveEach(newObjects, k + 1, used, offsetX, offsetY)
             ELSE LET r == FreshRef(used)
                      moved == [Translate(At(newObjects, index), offsetX, offsetY)
                                    EXCEPT !.ref = r]
                  IN  MoveEach([newObjects EXCEPT ![index + 1] = moved],
                               k + 1, used \cup {r}, offsetX, offsetY)

moveSelectedObjects(offsetX, offsetY) == MoveEach(objects, 0, KeptRefs, offsetX, offsetY)

\* The reference point of an object: the first point of a stroke, the start
\* of a shape, the position of a text.
objPosition(obj) ==
    CASE obj.type = "stroke" -> obj.data.points[1]
      [] obj.type = "shape" -> obj.data.start
      [] obj.type = "text" -> obj.data.position
      [] OTHER -> IPt(0, 0)

\* Faulty variants of createHistory, which the properties of the history
\* tell from it: one keeps the snapshots after the cursor, one drops the
\* first snapshot, one pushes the snapshot twice, one pushes the scene of
\* the render the handler ran in.
createHistoryStale(newObjects) == Append(SubSeq(history, 1, historyIndex + 1), objects)
createHistoryKeep(newObjects) == Append(history, newObjects)
createHistoryDropFirst(newObjects) == Append(SubSeq(history, 2, historyIndex + 1), newObjects)
createHistoryTwice(newObjects) ==
    Append(Append(SubSeq(history, 1, historyIndex + 1), newObjects), newObjects)
\* One more: the snapshot at the cursor is overwritten by the one pushed.
createHistoryOver(newObjects) ==
    Append(Append(SubSeq(history, 1, historyIndex), newObjects), newObjects)

\* The value createHistory(newObjects) gives history; historyIndex is advanced
\* by one beside it.
createHistory(newObjects) == Append(SubSeq(history, 1, historyIndex + 1), newObjects)

\* ------------------------------------------------------------ handlers
\* A handler that sets no state causes no render and runs no effect.
NoRender == UNCHANGED <<objects, history, frameVars>>

BeginResize(handle, bounds, x, y, startData) ==
    /\ isResizing' = TRUE
    /\ resizeHandle' = handle
    /\ initialBounds' = bounds
    /\ initialMousePos' = Pt(x, y)
    /\ resizeStartData' = startData
    /\ UNCHANGED <<historyIndex, selectedIndices, drawVars, dragVars, panVars, textVars,
                   viewVars, optionVars>>
    /\ NoRender

\* A faulty variant of BeginDrag: the selection is left as it was.
BeginDragKeep(newSelection, selectionSet, anchorObj, x, y) ==
    /\ dragOffset' = Pt(QSub(x, objPosition(anchorObj).x), QSub(y, objPosition(anchorObj).y))
    /\ isDragging' = TRUE
    /\ UNCHANGED <<historyIndex, selectedIndices, drawVars, resizeVars, panVars, textVars,
                   viewVars, optionVars>>
    /\ NoRender

BeginDrag(newSelection, selectionSet, anchorObj, x, y) ==
    /\ selectedIndices' = newSelection
    /\ dragOffset' = Pt(QSub(x, objPosition(anchorObj).x), QSub(y, objPosition(anchorObj).y))
    /\ isDragging' = TRUE
    /\ UNCHANGED <<historyIndex, drawVars, resizeVars, panVars, textVars, viewVars,
                   optionVars>>
    /\ Finish(objects, history, backgroundColor, FALSE, selectionSet, selectionSet)

\* A faulty variant of Sized: any bounds pass.
SizedOrFlat(b) == b # NULL

Sized(b) == b # NULL /\ QLt(I(0), b.width) /\ QLt(I(0), b.height)

\* The first of the three handle tests of the select branch that finds a
\* handle: [branch, handle, bounds].
FirstHandle(h1, h2, h3, groupBounds, bounds) ==
    IF h1 # NoHandle THEN [branch |-> 1, handle |-> h1, bounds |-> groupBounds]
    ELSE IF h2 # NoHandle THEN [branch |-> 2, handle |-> h2, bounds |-> bounds]
    ELSE IF h3 # NoHandle THEN [branch |-> 3, handle |-> h3, bounds |-> groupBounds]
    ELSE [branch |-> 0, handle |-> NoHandle, bounds |-> NULL]

HandleIn(x, y, groupBounds, bounds) ==
    FirstHandle(
        IF Len(selectedIndices) > 0 /\ Sized(groupBounds)
        THEN getResizeHandle(x, y, groupBounds) ELSE NoHandle,
        IF Len(selectedIndices) = 1 /\ Sized(bounds)
        THEN getResizeHandle(x, y, bounds) ELSE NoHandle,
        IF Len(selectedIndices) > 1 /\ Sized(groupBounds)
        THEN getResizeHandle(x, y, groupBounds) ELSE NoHandle,
        groupBounds, bounds)

\* The handle of the pointer-down at (x, y).
HandleAt(x, y) ==
    HandleIn(x, y, getGroupBounds(objects, selectedIndices, TRUE),
             IF Len(selectedIndices) = 1
             THEN ObjectBounds(At(objects, At(selectedIndices, 0))) ELSE NULL)

\* The select branch of onStartDrawing, h the handle and clickedIndex the
\* object under the pointer.
selectDown(x, y, shiftKey, h, clickedIndex, isClickOnSelected) ==
    IF h.branch = 1 THEN
        \* a deep copy of all selected objects
        BeginResize(h.handle, h.bounds, x, y,
            Array([k \in 1..Len(selectedIndices) |-> At(objects, selectedIndices[k])]))
    ELSE IF h.branch = 2 THEN
        BeginResize(h.handle, h.bounds, x, y,
            [isArray |-> FALSE, items |-> <<At(objects, At(selectedIndices, 0))>>])
    ELSE IF h.branch = 3 THEN
        BeginResize(h.handle, h.bounds, x, y, Array(<<>>))
    ELSE IF shiftKey /\ clickedIndex # NoIndex THEN
        IF Len(selectedIndices) > 0
        THEN BeginDrag(IF isClickOnSelected
                       THEN SelectSeq(selectedIndices, LAMBDA i : i # clickedIndex)
                       ELSE Append(selectedIndices, clickedIndex),
                       TRUE, At(objects, At(selectedIndices, 0)), x, y)
        ELSE /\ selectedIndices' = Append(selectedIndices, clickedIndex)
             /\ UNCHANGED <<historyIndex, gestureVars, textVars, viewVars, optionVars>>
             /\ Finish(objects, history, backgroundColor, FALSE, TRUE, TRUE)
    ELSE IF clickedIndex = NoIndex THEN
        /\ current' = [start |-> Pt(x, y), end |-> Pt(x, y)]
        /\ selectedIndices' = <<>>
        /\ isDrawing' = TRUE
        /\ UNCHANGED <<historyIndex, dragVars, resizeVars, panVars, textVars,
                       viewVars, optionVars>>
        /\ Finish(objects, history, backgroundColor, FALSE, TRUE, TRUE)
    ELSE IF ~isClickOnSelected
    THEN BeginDrag(<<clickedIndex>>, TRUE, At(objects, clickedIndex), x, y)
    ELSE BeginDrag(selectedIndices, FALSE, At(objects, clickedIndex), x, y)

\* onStartDrawing once the pointer is in canvas coordinates.
canvasDown(x, y, shiftKey) ==
    IF tool = "select" THEN
        selectDown(x, y, shiftKey, HandleAt(x, y), getPosition(x, y),
                   getPosition(x, y) # NoIndex /\ Includes(selectedIndices, getPosition(x, y)))
    ELSE IF tool = "text" THEN
        /\ textPosition' = Pt(x, y)
        /\ isEditingText' = TRUE
        /\ UNCHANGED <<historyIndex, selectedIndices, gestureVars, viewVars, optionVars>>
        /\ NoRender
    ELSE
        /\ isDrawing' = TRUE
        /\ current' =
            IF tool \in FreehandTools
            THEN [color |-> color, size |-> size, tool |-> tool, points |-> <<Pt(x, y)>>]
            ELSE IF tool \in ShapeTools
            THEN [color |-> color, size |-> size, tool |-> tool, type |-> tool,
                  start |-> Pt(x, y), end |-> Pt(x, y)]
            ELSE current
        /\ UNCHANGED <<historyIndex, selectedIndices, dragVars, resizeVars, panVars,
                       textVars, viewVars, optionVars>>
        /\ Finish(objects, history, backgroundColor, FALSE,
                  tool \in FreehandTools \cup ShapeTools, FALSE)

\* A faulty variant of withPoint: the point goes to the front.
withPointFirst(prev, p) == [prev EXCEPT !.points = <<p>> \o prev.points]

\* { ...prev, points: [...prev.points, { x, y }] }
withPoint(prev, p) == [prev EXCEPT !.points = Append(prev.points, p)]

\* A faulty variant of withEnd: the shape collapses onto the pointer.
withEndAndStart(prev, p) == [prev EXCEPT !.start = p, !.end = p]

\* { ...prev, end: { x, y } }
withEnd(prev, p) == [prev EXCEPT !.end = p]

\* A faulty variant of panOffset: the delta alone, the offset so far dropped.
panOffsetFromOrigin(screenX, screenY) ==
    Pt(QSub(screenX, panStart.x), QSub(screenY, panStart.y))

\* prev + delta of the pan branch, delta being the pointer less panStart.
panOffset(screenX, screenY) ==
    Pt(QAdd(canvasOffset.x, QSub(screenX, panStart.x)),
       QAdd(canvasOffset.y, QSub(screenY, panStart.y)))

onStartDrawing(screenX, screenY, shiftKey) ==
    IF ~canvas THEN UNCHANGED engineVars
    ELSE IF tool = "hand" THEN
        /\ isPanning' = TRUE
        /\ panStart' = Pt(screenX, screenY)
        /\ UNCHANGED <<historyIndex, selectedIndices, drawVars, dragVars, resizeVars,
                       textVars, viewVars, optionVars>>
        /\ NoRender
    ELSE canvasDown(screenToCanvas(screenX, screenY).x, screenToCanvas(screenX, screenY).y,
                    shiftKey)

onDrawing(screenX, screenY) ==
    IF ~canvas THEN UNCHANGED engineVars
    ELSE IF isPanning /\ panStart # NULL /\ tool = "hand" THEN
        /\ canvasOffset' = panOffset(screenX, screenY)
        /\ panStart' = Pt(screenX, screenY)
        /\ UNCHANGED <<historyIndex, selectedIndices, drawVars, dragVars, resizeVars,
                       isPanning, textVars, zoom, optionVars>>
        /\ Finish(objects, history, backgroundColor, TRUE, TRUE, FALSE)
    ELSE LET p == screenToCanvas(screenX, screenY)
             x == p.x
             y == p.y
    IN  IF isResizing THEN
            LET res == performResize(x, y)
            IN  /\ UNCHANGED <<historyIndex, selectedIndices, gestureVars, textVars,
                               viewVars, optionVars>>
                /\ Finish(res.objects, history, backgroundColor, TRUE, res.set, res.set)
        ELSE IF isDragging /\ Len(selectedIndices) > 0 /\ dragOffset # NULL THEN
            LET firstObj == At(objects, At(selectedIndices, 0))
                offsetX == QSub(QSub(x, objPosition(firstObj).x), dragOffset.x)
                offsetY == QSub(QSub(y, objPosition(firstObj).y), dragOffset.y)
            IN  /\ UNCHANGED <<historyIndex, selectedIndices, gestureVars, textVars,
                               viewVars, optionVars>>
                /\ Finish(moveSelectedObjects(offsetX, offsetY), history, backgroundColor,
                          TRUE, TRUE, TRUE)
        ELSE IF ~isDrawing THEN UNCHANGED engineVars
        ELSE IF tool = "select" /\ Has(current, "start") /\ Has(current, "end") THEN
            /\ current' = [start |-> current.start, end |-> Pt(x, y)]
            /\ UNCHANGED <<historyIndex, selectedIndices, isDrawing, dragVars, resizeVars,
                           panVars, textVars, viewVars, optionVars>>
            /\ Finish(objects, history, backgroundColor, TRUE, TRUE, FALSE)
        ELSE IF tool \in FreehandTools /\ current # NULL /\ ~Has(current, "type") THEN
            IF ~Has(current, "points") THEN
                \* [...prev.points, { x, y }] on a selection box: the updater throws
                \* in the re-render and React unmounts the page.
                /\ mounted' = FALSE
                /\ canvas' = FALSE
                /\ UNCHANGED <<historyIndex, selectedIndices, gestureVars, textVars,
                               viewVars, tool, color, size, backgroundColor>>
                /\ Finish(objects, history, backgroundColor, TRUE, FALSE, FALSE)
            ELSE
                /\ current' = withPoint(current, Pt(x, y))
                /\ UNCHANGED <<historyIndex, selectedIndices, isDrawing, dragVars,
                               resizeVars, panVars, textVars, viewVars, optionVars>>
                /\ Finish(objects, history, backgroundColor, TRUE, TRUE, FALSE)
        ELSE IF tool \in ShapeTools /\ current # NULL /\ Has(current, "type") THEN
            /\ current' = withEnd(current, Pt(x, y))
            /\ UNCHANGED <<historyIndex, selectedIndices, isDrawing, dragVars, resizeVars,
                           panVars, textVars, viewVars, optionVars>>
            /\ Finish(objects, history, backgroundColor, TRUE, TRUE, FALSE)
        ELSE
            \* the updater returns prev, or no branch matches: only scheduleRender()
            /\ UNCHANGED <<historyIndex, selectedIndices, gestureVars, textVars, viewVars,
                           optionVars>>
            /\ Finish(objects, history, backgroundColor, TRUE, FALSE, FALSE)

\* A faulty variant of trim: whitespace is kept.
trimNothing(text) == text

\* text.trim() of the strings the model types
trim(text) == IF text = " " THEN "" ELSE text

fontSizeFactor == 3

\* addText(text, font) beside a setTool(nextTool) of the same event.
addTextThen(text, font, nextTool) ==
    IF textPosition = NULL \/ trim(text) = "" THEN
        /\ isEditingText' = FALSE
        /\ textPosition' = NULL
        /\ tool' = nextTool
        /\ UNCHANGED <<historyIndex, selectedIndices, gestureVars, viewVars,
                       color, size, backgroundColor, canvas, mounted>>
        /\ Finish(objects, history, backgroundColor, FALSE, FALSE, nextTool # tool)
    ELSE
        LET newText == [text |-> text, position |-> textPosition, color |-> color,
                        size |-> QMul(size, I(fontSizeFactor)), font |-> font]
            newObject == [type |-> "text",
                          ref |-> FreshRef(HistoryRefs(history) \cup RefsOf(objects)
                                           \cup FrameRefs),
                          data |-> newText]
            newObjects == Append(objects, newObject)
        IN  /\ historyIndex' = historyIndex + 1
            /\ isEditingText' = FALSE
            /\ textPosition' = NULL
            /\ selectedIndices' = <<Len(newObjects) - 1>>
            /\ tool' = nextTool
            /\ UNCHANGED <<gestureVars, viewVars, color, size, backgroundColor, canvas, mounted>>
            /\ Finish(newObjects, createHistory(newObjects), backgroundColor,
                      FALSE, TRUE, TRUE)

addText(text, font) == addTextThen(text, font, tool)

onStopDrawing ==
    IF isPanning THEN
        /\ isPanning' = FALSE
        /\ panStart' = NULL
        /\ UNCHANGED <<historyIndex, selectedIndices, drawVars, dragVars, resizeVars,
                       textVars, viewVars, optionVars>>
        /\ NoRender
    ELSE IF isResizing THEN
        /\ historyIndex' = historyIndex + 1
        /\ isResizing' = FALSE
        /\ resizeHandle' = NoHandle
        /\ initialBounds' = NULL
        /\ initialMousePos' = NULL
        /\ resizeStartData' = Array(<<>>)
        /\ UNCHANGED <<selectedIndices, drawVars, dragVars, panVars, textVars, viewVars,
                       optionVars>>
        /\ Finish(objects, createHistory(objects), backgroundColor, FALSE, FALSE, FALSE)
    ELSE IF isDragging THEN
        /\ historyIndex' = historyIndex + 1
        /\ isDragging' = FALSE
        /\ dragOffset' = NULL
        /\ UNCHANGED <<selectedIndices, drawVars, resizeVars, panVars, textVars, viewVars,
                       optionVars>>
        /\ Finish(objects, createHistory(objects), backgroundColor, FALSE, FALSE, FALSE)
    ELSE IF tool = "select" /\ Has(current, "start") /\ Has(current, "end") THEN
        LET selected == getObjectsInSelection(current)
        IN  /\ selectedIndices' = IF Len(selected) > 0 THEN selected ELSE selectedIndices
            /\ current' = NULL
            /\ isDrawing' = FALSE
            /\ UNCHANGED <<historyIndex, dragVars, resizeVars, panVars, textVars, viewVars,
                           optionVars>>
            /\ Finish(objects, history, backgroundColor, FALSE, TRUE, Len(selected) > 0)
    ELSE IF ~isDrawing \/ current = NULL THEN
        /\ current' = NULL
        /\ isDrawing' = FALSE
        /\ UNCHANGED <<historyIndex, selectedIndices, dragVars, resizeVars, panVars,
                       textVars, viewVars, optionVars>>
        /\ Finish(objects, history, backgroundColor, FALSE, current # NULL, FALSE)
    ELSE IF Has(current, "points") \/ Has(current, "type") THEN
        LET newObject == [type |-> IF Has(current, "points") THEN "stroke" ELSE "shape",
                          ref |-> FreshRef(HistoryRefs(history) \cup RefsOf(objects)
                                           \cup FrameRefs),
                          data |-> current]
            newObjects == Append(objects, newObject)
        IN  /\ historyIndex' = historyIndex + 1
            /\ selectedIndices' = <<Len(newObjects) - 1>>
            /\ current' = NULL
            /\ isDrawing' = FALSE
            /\ UNCHANGED <<dragVars, resizeVars, panVars, textVars, viewVars, optionVars>>
            /\ Finish(newObjects, createHistory(newObjects), backgroundColor,
                      FALSE, TRUE, TRUE)
    ELSE UNCHANGED engineVars

\* A faulty variant of clear: no test for the empty scene.
clearAlways ==
    /\ selectedIndices' = <<>>
    /\ historyIndex' = historyIndex + 1
    /\ UNCHANGED <<gestureVars, textVars, viewVars, optionVars>>
    /\ Finish(<<>>, createHistory(<<>>), backgroundColor, FALSE, TRUE, TRUE)

clear ==
    IF Len(objects) = 0 THEN UNCHANGED engineVars
    ELSE /\ selectedIndices' = <<>>
         /\ historyIndex' = historyIndex + 1
         /\ UNCHANGED <<gestureVars, textVars, viewVars, optionVars>>
         /\ Finish(<<>>, createHistory(<<>>), backgroundColor, FALSE, TRUE, TRUE)

\* Faulty variants of undo and redo: an undo that shows the snapshot it
\* leaves, an undo that keeps the selection, a redo that jumps to the newest
\* snapshot, a redo that clears the selection at the newest snapshot.
undoStale ==
    IF historyIndex > 0 THEN
        /\ historyIndex' = historyIndex - 1
        /\ selectedIndices' = <<>>
        /\ UNCHANGED <<gestureVars, textVars, viewVars, optionVars>>
        /\ Finish(At(history, historyIndex), history, backgroundColor, FALSE, TRUE, TRUE)
    ELSE UNCHANGED engineVars

undoKeepsSelection ==
    IF historyIndex > 0 THEN
        /\ historyIndex' = historyIndex - 1
        /\ UNCHANGED <<selectedIndices, gestureVars, textVars, viewVars, optionVars>>
        /\ Finish(At(history, historyIndex - 1), history, backgroundColor, FALSE, TRUE, TRUE)
    ELSE UNCHANGED engineVars

redoToLast ==
    IF historyIndex < Len(history) - 1 THEN
        /\ historyIndex' = Len(history) - 1
        /\ selectedIndices' = <<>>
        /\ UNCHANGED <<gestureVars, textVars, viewVars, optionVars>>
        /\ Finish(At(history, Len(history) - 1), history, backgroundColor, FALSE, TRUE, TRUE)
    ELSE UNCHANGED engineVars

redoClears ==
    /\ historyIndex' = IF historyIndex < Len(history) - 1 THEN historyIndex + 1 ELSE historyIndex
    /\ selectedIndices' = <<>>
    /\ UNCHANGED <<gestureVars, textVars, viewVars, optionVars>>
    /\ Finish(IF historyIndex < Len(history) - 1 THEN At(history, historyIndex + 1) ELSE objects,
              history, backgroundColor, FALSE, TRUE, TRUE)

undo ==
    IF historyIndex > 0 THEN
        LET newIndex == historyIndex - 1
        IN  /\ historyIndex' = newIndex
            /\ selectedIndices' = <<>>
            /\ UNCHANGED <<gestureVars, textVars, viewVars, optionVars>>
            /\ Finish(At(history, newIndex), history, backgroundColor, FALSE, TRUE, TRUE)
    ELSE UNCHANGED engineVars

redo ==
    IF historyIndex < Len(history) - 1 THEN
        LET newIndex == historyIndex + 1
        IN  /\ historyIndex' = newIndex
            /\ selectedIndices' = <<>>
            /\ UNCHANGED <<gestureVars, textVars, viewVars, optionVars>>
            /\ Finish(At(history, newIndex), history, backgroundColor, FALSE, TRUE, TRUE)
    ELSE UNCHANGED engineVars

\* A faulty variant of deleteSelected: the objects after the first selected
\* one go too.
deleteFromSelected ==
    IF Len(selectedIndices) = 0 THEN UNCHANGED engineVars
    ELSE LET newObjects == SubSeq(objects, 1, At(selectedIndices, 0))
         IN  /\ selectedIndices' = <<>>
             /\ historyIndex' = historyIndex + 1
             /\ UNCHANGED <<gestureVars, textVars, viewVars, optionVars>>
             /\ Finish(newObjects, createHistory(newObjects), backgroundColor,
                       FALSE, TRUE, TRUE)

deleteSelected ==
    IF Len(selectedIndices) = 0 THEN UNCHANGED engineVars
    ELSE LET kept == {k \in 1..Len(objects) : ~Includes(selectedIndices, k - 1)}
             indices == [k \in 1..Len(objects) |-> k]
             keptIndices == SelectSeq(indices, LAMBDA k : k \in kept)
             newObjects == [k \in 1..Len(keptIndices) |-> objects[keptIndices[k]]]
         IN  /\ selectedIndices' = <<>>
             /\ historyIndex' = historyIndex + 1
             /\ UNCHANGED <<gestureVars, textVars, viewVars, optionVars>>
             /\ Finish(newObjects, createHistory(newObjects), backgroundColor,
                       FALSE, TRUE, TRUE)

\* selectAll() beside a setTool(nextTool) of the same event.
selectAllThen(nextTool) ==
    /\ selectedIndices' = [k \in 1..Len(objects) |-> k - 1]
    /\ tool' = nextTool
    /\ UNCHANGED <<historyIndex, gestureVars, textVars, viewVars,
                   color, size, backgroundColor, canvas, mounted>>
    /\ Finish(objects, history, backgroundColor, FALSE, TRUE, TRUE)

selectAll == selectAllThen(tool)

\* ------------------------------------------------------------- viewport
\* A zoom state that changes runs the effect that calls resizeCanvas(); an
\* offset that is set is a new object, and runs the effect that calls
\* scheduleRender().
\* A faulty variant of zoomIn: no upper limit.
zoomInUnclamped ==
    /\ zoom' = QAdd(zoom, <<1, 10>>)
    /\ UNCHANGED <<historyIndex, selectedIndices, gestureVars, textVars, canvasOffset,
                   optionVars>>
    /\ Finish(objects, history, backgroundColor, FALSE, FALSE, zoom' # viewRef.zoom)

zoomIn ==
    /\ zoom' = QMin(QAdd(zoom, <<1, 10>>), I(5))
    /\ UNCHANGED <<historyIndex, selectedIndices, gestureVars, textVars, canvasOffset,
                   optionVars>>
    /\ Finish(objects, history, backgroundColor, FALSE, FALSE, zoom' # viewRef.zoom)

zoomOut ==
    /\ zoom' = QMax(QSub(zoom, <<1, 10>>), <<1, 5>>)
    /\ UNCHANGED <<historyIndex, selectedIndices, gestureVars, textVars, canvasOffset,
                   optionVars>>
    /\ Finish(objects, history, backgroundColor, FALSE, FALSE, zoom' # viewRef.zoom)

resetZoom ==
    /\ zoom' = I(1)
    /\ canvasOffset' = IPt(0, 0)
    /\ UNCHANGED <<historyIndex, selectedIndices, gestureVars, textVars, optionVars>>
    /\ Finish(objects, history, backgroundColor, FALSE, TRUE, zoom' # viewRef.zoom)

\* The wheel listener of the canvas, registered once; it reads zoomRef and
\* offsetRef, which hold the zoom and the offset of the last render.
\* flushed: React renders, and runs the effects, before the next event;
\* otherwise the state is set and the render is due.
handleWheelThen(mouseX, mouseY, deltaY, ctrlOrMeta, shiftKey, flushed) ==
    LET currentZoom == viewRef.zoom
        currentOffset == viewRef.canvasOffset
        zoomChange == IF deltaY > 0 THEN <<-1, 10>> ELSE <<1, 10>>
        newZoom == QMax(<<1, 5>>, QMin(I(5), QAdd(currentZoom, zoomChange)))
        worldPointX == QDiv(QSub(mouseX, currentOffset.x), currentZoom)
        worldPointY == QDiv(QSub(mouseY, currentOffset.y), currentZoom)
        scroll == QDiv(I(deltaY * 50), I(100))
    IN  /\ zoom' = IF ctrlOrMeta THEN newZoom ELSE zoom
        /\ canvasOffset' =
            IF ctrlOrMeta
            THEN Pt(QSub(mouseX, QMul(worldPointX, newZoom)),
                    QSub(mouseY, QMul(worldPointY, newZoom)))
            ELSE IF shiftKey
            THEN Pt(QSub(currentOffset.x, scroll), currentOffset.y)
            ELSE Pt(currentOffset.x, QSub(currentOffset.y, scroll))
        /\ UNCHANGED <<historyIndex, selectedIndices, gestureVars, textVars, optionVars>>
        /\ IF flushed
           THEN Finish(objects, history, backgroundColor, FALSE, TRUE,
                       zoom' # viewRef.zoom)
           ELSE /\ viewRef' = [viewRef EXCEPT !.due = TRUE]
                /\ UNCHANGED <<objects, history, needsRender, pendingFrame, screen>>

handleWheel(mouseX, mouseY, deltaY, ctrlOrMeta, shiftKey) ==
    handleWheelThen(mouseX, mouseY, deltaY, ctrlOrMeta, shiftKey, TRUE)

\* The render that is due, and its effects.
flushRender ==
    /\ viewRef.due
    /\ UNCHANGED <<historyIndex, selectedIndices, gestureVars, textVars, viewVars,
                   optionVars>>
    /\ Finish(objects, history, backgroundColor, FALSE, TRUE, zoom # viewRef.zoom)

\* toImage reads and writes the pixels of the canvas, and no state.
toImage == UNCHANGED engineVars

\* What the hook returns for the undo and redo buttons.
canUndo == historyIndex > 0
canRedo == historyIndex < Len(history) - 1

\* The page: setTool(t), from the toolbar or a shortcut.
setTool(t) ==
    /\ tool' = t
    /\ UNCHANGED <<historyIndex, selectedIndices, gestureVars, textVars, viewVars,
                   color, size, backgroundColor, canvas, mounted>>
    /\ Finish(objects, history, backgroundColor, FALSE, FALSE, t # tool)

\* The page: addText(text); setText(''); setTool('select').
handleTextSubmit(text) == addTextThen(text, "Arial", "select")

\* The page: setTool('select'); selectAll().
handleSelectAll == selectAllThen("select")

lightBackground == "#ffffff"
darkBackground == "#292524"

\* The page: setTheme(theme === 'dark' ? 'light' : 'dark'); no dependency of
\* an effect of the hook changes.
setTheme ==
    /\ backgroundColor' =
        IF backgroundColor = darkBackground THEN lightBackground ELSE darkBackground
    /\ UNCHANGED <<historyIndex, selectedIndices, gestureVars, textVars, viewVars,
                   tool, color, size, canvas, mounted>>
    /\ NoRender

\* ------------------------------------------------------- initial state
NoBookkeeping == [phase |-> "off"]

\* The state after the first render, the ref attached to a canvas or not,
\* the canvas watched or not.
HookStart(attached, watched) ==
    /\ objects = <<>>
    /\ current = NULL
    /\ isDrawing = FALSE
    /\ history = <<<<>>>>
    /\ historyIndex = 0
    /\ isDragging = FALSE
    /\ dragOffset = NULL
    /\ selectedIndices = <<>>
    /\ isEditingText = FALSE
    /\ textPosition = NULL
    /\ isResizing = FALSE
    /\ resizeHandle = NoHandle
    /\ initialBounds = NULL
    /\ initialMousePos = NULL
    /\ resizeStartData = Array(<<>>)
    /\ canvasOffset = IPt(0, 0)
    /\ zoom = I(1)
    /\ isPanning = FALSE
    /\ panStart = NULL
    /\ tool = "pen"
    /\ color = "#000000"
    /\ size = I(5)
    /\ backgroundColor = lightBackground
    /\ canvas = attached
    /\ mounted = TRUE
    \* the effects of the first render: scheduleRender(), then resizeCanvas()
    /\ needsRender = TRUE
    /\ screen = IF watched
                THEN [shown |-> IF attached THEN View(<<>>, NULL, <<>>, I(1), IPt(0, 0))
                                ELSE NULL,
                      pending |-> 1, calls |-> 1]
                ELSE NULL
    /\ pendingFrame = Closure(<<>>, lightBackground, View(<<>>, NULL, <<>>, I(1), IPt(0, 0)))
    /\ viewRef = Rendered(I(1), IPt(0, 0))

HookInit(attached) == HookStart(attached, FALSE)
EngineInit == HookInit(TRUE)

\* ------------------------------------------------ the main specification
\* The environment of the main specification: one pointer (a pointer goes
\* down only when no gesture is in flight and the text input is closed),
\* the keyboard at any time the page listens to it, the toolbar between
\* gestures.
Coords == {<<0, 0>>, <<20, 10>>}
Pts == {IPt(c[1], c[2]) : c \in Coords}
Tools == {"select", "pen", "text"}
Texts == {"hi", " "}

Idle == ~isDrawing /\ ~isDragging /\ ~isResizing /\ ~isPanning

\* A deletion has room for its snapshot; the other handlers that push one
\* leave the last slot of the history to a deletion.
LastRoom == historyIndex + 2 <= MaxHistory
Room == historyIndex + 3 <= MaxHistory
\* A gesture or a text that appends an object has room for it.
CanGrow == Len(objects) < MaxObjects /\ Room
\* The pointer-down at (x, y) starts a resize or a drag.
StartsEdit(q) ==
    tool = "select" /\ (HandleAt(q.x, q.y).branch # 0 \/ getPosition(q.x, q.y) # NoIndex)

\* The pointer handlers, room saying that the history can take the
\* snapshot the gesture will push.
DownAt(p, shiftKey, T, room) ==
    /\ Idle /\ ~isEditingText
    /\ tool \in T
    /\ tool \in FreehandTools \cup ShapeTools \cup {"text"} => Len(objects) < MaxObjects /\ room
    /\ StartsEdit(screenToCanvas(p.x, p.y)) => room
    /\ onStartDrawing(p.x, p.y, shiftKey)

Down(P, T) == \E p \in P, shiftKey \in BOOLEAN : DownAt(p, shiftKey, T, Room)

MoveTo(p) ==
    /\ Has(current, "points") => Len(current.points) < MaxPoints
    /\ onDrawing(p.x, p.y)

Move(P) == \E p \in P : MoveTo(p)

\* The pointer-up would append the stroke or shape in progress.
Commits == isDrawing /\ current # NULL /\ (Has(current, "points") \/ Has(current, "type"))

UpIn(room) ==
    /\ (isResizing \/ isDragging \/ (isDrawing /\ current # NULL)) => room
    /\ (isDrawing /\ current # NULL) => Len(objects) < MaxObjects
    /\ onStopDrawing

Up == UpIn(Room)

\* The text input is on the page while a text is edited.
Type(S) ==
    \E text \in S :
        /\ isEditingText /\ textPosition # NULL
        /\ CanGrow
        /\ handleTextSubmit(text)

Pick(T) == \E t \in T : Idle /\ t # tool /\ setTool(t)

\* A step of the page: it is mounted, and the bookkeeping stays as it is.
Plain == mounted /\ UNCHANGED gh
\* The page ignores the keyboard while a text is edited.
Keys == Plain /\ ~isEditingText

PointerDown == Plain /\ Down(Pts, Tools)
PointerMove == Plain /\ Move(Pts)
PointerUp == Plain /\ Up
AddText == Plain /\ Type(Texts)
Clear == Keys /\ Room /\ clear
Undo == Keys /\ undo
Redo == Keys /\ redo
DeleteSelected == Keys /\ LastRoom /\ deleteSelected
SelectAll == Keys /\ handleSelectAll
SetTool == Keys /\ Pick(Tools)

Init == EngineInit /\ gh = NoBookkeeping

Next ==
    \/ PointerDown
    \/ PointerMove
    \/ PointerUp
    \/ AddText
    \/ Clear
    \/ Undo
    \/ Redo
    \/ DeleteSelected
    \/ SelectAll
    \/ SetTool

Spec == Init /\ [][Next]_vars

\* ------------------------------------------- properties of the history
\* C4.  In every reachable state the history is non-empty, its first snapshot
\* is the empty scene, and the cursor is an index of it:
\* 0 <= historyIndex <= history.length - 1.
C4_HistoryShape ==
    /\ Len(history) >= 1
    /\ At(history, 0) = <<>>
    /\ 0 <= historyIndex
    /\ historyIndex <= Len(history) - 1

\* The history has grown to three snapshots and the cursor is back on the first.
C4_Witness == Len(history) >= 3 /\ historyIndex = 0 /\ objects = <<>>

\* C2.  When the cursor is below the last snapshot, a handler that pushes a
\* snapshot leaves the old history[0..historyIndex] followed by the one new
\* snapshot: the cursor is on the last snapshot (canRedo is false) and no
\* snapshot that was redoable remains.
C2_BranchDiscard ==
    [][(canRedo /\ historyIndex' > historyIndex /\ ~redo)
        => /\ Len(history') = historyIndex + 2
           /\ SubSeq(history', 1, historyIndex + 1) = SubSeq(history, 1, historyIndex + 1)
           /\ historyIndex' = Len(history') - 1
           /\ ~canRedo']_vars

\* The first object ever drawn was undone and its snapshot discarded: the
\* only snapshot after the empty one holds the second object allocated.
C2_Witness ==
    /\ Len(history) = 2
    /\ historyIndex = 1
    /\ Len(At(history, 1)) = 1
    /\ At(At(history, 1), 0).ref = 1

\* C3.  Immediately after every committed mutation (a step that pushes a
\* snapshot or moves the cursor: the pointer-up that ends a draw, a drag or a
\* resize, addText, deleteSelected, clear, undo, redo) the scene is the
\* snapshot under the cursor.
C3_SceneIsSnapshot ==
    [][(historyIndex' # historyIndex \/ history' # history)
        => objects' = At(history', historyIndex')]_vars

\* Two objects were committed and no gesture is in flight.
C3_Witness == historyIndex >= 2 /\ Len(objects) = 2 /\ Idle

\* C5.  In every reachable state every selected index is an index of the
\* scene, and an undo, redo, clear or deleteSelected that replaces the scene
\* leaves the selection empty.
SelectionValid ==
    \A k \in 1..Len(selectedIndices) :
        0 <= selectedIndices[k] /\ selectedIndices[k] < Len(objects)

C5_SelectionValid ==
    [][/\ SelectionValid'
       /\ ((undo \/ redo \/ clear \/ deleteSelected) /\ objects' # objects)
            => selectedIndices' = <<>>]_vars

\* An object was committed (and selected by its commit) and a later one
\* undone: the scene was replaced and nothing is selected.
C5_Witness == canRedo /\ Len(objects) >= 1 /\ selectedIndices = <<>>

\* C6.  A pointer-down and a pointer-move never change history or
\* historyIndex (no step that changes them is one of either), and the pointer-up that completes a draw, a drag or a resize
\* gesture appends exactly one snapshot after the cursor and advances the
\* cursor by exactly one.
InGesture ==
    \/ isResizing
    \/ isDragging
    \/ isDrawing /\ current # NULL /\ (Has(current, "points") \/ Has(current, "type"))

C6_OneSnapshotPerGesture ==
    [][/\ (history' # history \/ historyIndex' # historyIndex)
            => /\ ~(\E p \in Pts : onDrawing(p.x, p.y))
               /\ ~(\E p \in Pts, k \in BOOLEAN : onStartDrawing(p.x, p.y, k))
       /\ (InGesture /\ onStopDrawing)
            => /\ historyIndex' = historyIndex + 1
               /\ Len(history') = historyIndex + 2
               /\ SubSeq(history', 1, historyIndex + 1) = SubSeq(history, 1, historyIndex + 1)]_vars

\* A drag or a resize of the one object of the scene was completed.
C6_Witness ==
    /\ Len(history) = 3 /\ historyIndex = 2 /\ Idle
    /\ Len(At(history, 1)) = 1 /\ Len(objects) = 1
    /\ At(objects, 0).ref # At(At(history, 1), 0).ref

\* C7.  undo() at the first snapshot and redo() at the last leave objects,
\* history, historyIndex and selectedIndices as they are: undo and redo act
\* only when canUndo, canRedo (historyIndex > 0, historyIndex below the last
\* index) say so, and then move the cursor by one.
C7_UndoRedoGuarded ==
    [][/\ (undo /\ ~canUndo) => UNCHANGED <<objects, history, historyIndex, selectedIndices>>
       /\ (redo /\ ~canRedo) => UNCHANGED <<objects, history, historyIndex, selectedIndices>>
       /\ (undo /\ canUndo) => historyIndex' = historyIndex - 1
       /\ (redo /\ canRedo) => historyIndex' = historyIndex + 1
       /\ canUndo <=> historyIndex > 0
       /\ canRedo <=> historyIndex < Len(history) - 1]_vars

\* Everything was undone while a gesture is in flight with a selection to keep.
C7_Witness == ~canUndo /\ canRedo /\ current # NULL

\* ------------------------------------ the undo/redo inverse specification
\* N committed operations from the initial state, then undo() N times, then
\* redo() N times.  gh counts them: n the operations committed, k the undos
\* (then the redos) done, scene the scene right after the last operation.
InverseTools == {"select", "eraser", "rectangle", "text"}

InverseInit ==
    /\ EngineInit
    /\ gh = [phase |-> "ops", n |-> 0, k |-> 0, scene |-> <<>>]

\* An operation step: every handler but undo and redo.
Operating == mounted /\ gh.phase = "ops"
Counted ==
    gh' = [gh EXCEPT !.n = historyIndex',
                     !.scene = IF historyIndex' # historyIndex THEN objects' ELSE @]

InverseDown == Operating /\ Down(Pts, InverseTools) /\ Counted
InverseMove == Operating /\ Move(Pts) /\ Counted
InverseUp == Operating /\ Up /\ Counted
InverseText == Operating /\ Type(Texts) /\ Counted
InverseClear == Operating /\ ~isEditingText /\ Room /\ clear /\ Counted
InverseDelete == Operating /\ ~isEditingText /\ LastRoom /\ deleteSelected /\ Counted
InverseSelectAll == Operating /\ ~isEditingText /\ handleSelectAll /\ Counted
InverseTool == Operating /\ ~isEditingText /\ Pick(InverseTools) /\ Counted

InverseUndo ==
    /\ mounted
    /\ gh.phase \in {"ops", "undo"}
    /\ gh.n > 0
    /\ gh.k < gh.n
    /\ undo
    /\ gh' = [gh EXCEPT !.phase = "undo", !.k = @ + 1]

InverseRedo ==
    /\ mounted
    /\ \/ gh.phase = "undo" /\ gh.k = gh.n
       \/ gh.phase = "redo" /\ gh.k < gh.n
    /\ redo
    /\ gh' = [gh EXCEPT !.phase = "redo", !.k = IF gh.phase = "undo" THEN 1 ELSE @ + 1]

\* The animation frame fires whenever it is pending.
InverseFrame == mounted /\ runFrame /\ UNCHANGED gh

InverseNext ==
    \/ InverseDown
    \/ InverseMove
    \/ InverseUp
    \/ InverseText
    \/ InverseClear
    \/ InverseDelete
    \/ InverseSelectAll
    \/ InverseTool
    \/ InverseUndo
    \/ InverseRedo
    \/ InverseFrame

SpecInverse == InverseInit /\ [][InverseNext]_vars

\* C1.  After N committed operations from the initial state, N undos leave
\* the empty scene, and N redos after them leave the scene that existed right
\* after the N-th operation.
C1_UndoRedoInverse ==
    /\ (gh.phase = "undo" /\ gh.k = gh.n) => objects = <<>>
    /\ (gh.phase = "redo" /\ gh.k = gh.n) => objects = gh.scene

\* Three operations were undone and redone, and the scene they left is back.
C1_Witness == gh.phase = "redo" /\ gh.n = 3 /\ gh.k = 3 /\ Len(objects) >= 1

\* ------------------------------------------- the scenario specification
\* Draw a pen stroke A, draw a rectangle B, select both (Ctrl+A, or a
\* selection box), drag the bottom-right handle of the group by (20, 20),
\* undo, undo, redo.  gh.pc is the place in the scenario, gh.A and gh.B the
\* objects as they were committed, gh.p0 the pointer-down on the handle.
ScenarioCoords == {<<0, 0>>, <<20, 10>>, <<40, 40>>}
ScenarioPts == {IPt(c[1], c[2]) : c \in ScenarioCoords}
BandPts == {IPt(-30, -30), IPt(20, 20), IPt(70, 70)}
\* Offsets from the corner of the group at which the handle is grabbed.
Grabs == {0, 5, 13}
\* The displacement of the handle.
dragBy == IPt(20, 20)

ScenarioInit ==
    /\ EngineInit
    /\ gh = [phase |-> "scenario", pc |-> "start", A |-> NULL, B |-> NULL, p0 |-> NULL]

At_(pc) == mounted /\ gh.pc = pc
Goto(pc) == gh' = [gh EXCEPT !.pc = pc]

ScnPenDown ==
    /\ At_("start")
    /\ \E p \in ScenarioPts : onStartDrawing(p.x, p.y, FALSE)
    /\ Goto("drawingA")

ScnPenMove ==
    /\ At_("drawingA")
    /\ Len(current.points) < MaxPoints
    /\ \E p \in ScenarioPts : onDrawing(p.x, p.y)
    /\ UNCHANGED gh

ScnPenUp ==
    /\ At_("drawingA")
    /\ onStopDrawing
    /\ gh' = [gh EXCEPT !.pc = "drewA", !.A = At(objects', 0)]

ScnRectTool == At_("drewA") /\ setTool("rectangle") /\ Goto("toolB")

ScnRectDown ==
    /\ At_("toolB")
    /\ \E p \in ScenarioPts : onStartDrawing(p.x, p.y, FALSE)
    /\ Goto("drawingB")

ScnRectMove ==
    /\ At_("drawingB")
    /\ \E p \in ScenarioPts : onDrawing(p.x, p.y)
    /\ UNCHANGED gh

ScnRectUp ==
    /\ At_("drawingB")
    /\ onStopDrawing
    /\ gh' = [gh EXCEPT !.pc = "drewB", !.B = At(objects', 1)]

ScnSelectAll == At_("drewB") /\ handleSelectAll /\ Goto("selected")

ScnSelectTool == At_("drewB") /\ setTool("select") /\ Goto("selecting")

ScnBandDown ==
    /\ At_("selecting")
    /\ \E p \in BandPts : ~StartsEdit(p) /\ onStartDrawing(p.x, p.y, FALSE)
    /\ Goto("banding")

ScnBandMove ==
    /\ At_("banding")
    /\ \E p \in BandPts : onDrawing(p.x, p.y)
    /\ UNCHANGED gh

ScnBandUp ==
    /\ At_("banding")
    /\ onStopDrawing
    /\ Goto(IF Len(selectedIndices') = 2 THEN "selected" ELSE "selecting")

\* The pointer goes down on the bottom-right handle of the group.
ScnHandleDown ==
    /\ At_("selected")
    /\ Len(selectedIndices) = 2
    /\ getGroupBounds(objects, selectedIndices, TRUE) # NULL
    /\ \E d \in Grabs :
        LET b == getGroupBounds(objects, selectedIndices, TRUE)
            p == Pt(QAdd(QAdd(b.x, b.width), I(d)), QAdd(QAdd(b.y, b.height), I(d)))
        IN  /\ HandleAt(p.x, p.y).handle = "bottom-right"
            /\ onStartDrawing(p.x, p.y, FALSE)
            /\ gh' = [gh EXCEPT !.pc = "resizing", !.p0 = p]

ScnHandleMove ==
    /\ At_("resizing")
    /\ \E p \in ScenarioPts : onDrawing(p.x, p.y)
    /\ UNCHANGED gh

ScnHandleDragged ==
    /\ At_("resizing")
    /\ onDrawing(QAdd(gh.p0.x, dragBy.x), QAdd(gh.p0.y, dragBy.y))
    /\ Goto("resized")

ScnHandleUp == At_("resized") /\ onStopDrawing /\ Goto("committed")
ScnUndo == At_("committed") /\ undo /\ Goto("undone")
ScnUndoAgain == At_("undone") /\ undo /\ Goto("undoneTwice")
ScnRedo == At_("undoneTwice") /\ redo /\ Goto("redone")

ScenarioNext ==
    \/ ScnPenDown
    \/ ScnPenMove
    \/ ScnPenUp
    \/ ScnRectTool
    \/ ScnRectDown
    \/ ScnRectMove
    \/ ScnRectUp
    \/ ScnSelectAll
    \/ ScnSelectTool
    \/ ScnBandDown
    \/ ScnBandMove
    \/ ScnBandUp
    \/ ScnHandleDown
    \/ ScnHandleMove
    \/ ScnHandleDragged
    \/ ScnHandleUp
    \/ ScnUndo
    \/ ScnUndoAgain
    \/ ScnRedo

SpecScenario == ScenarioInit /\ [][ScenarioNext]_vars

DragCoords == {<<0, 0>>, <<20, 20>>, <<40, 40>>, <<60, 60>>}
DragPts == {IPt(c[1], c[2]) : c \in DragCoords}
GrabPts == {IPt(10, 10), IPt(30, 30), IPt(50, 50)}
MovePts == {IPt(31, 30), IPt(10, 10)}
DragTools == {"select", "rectangle"}

NoDrag ==
    [phase |-> "drag", pc |-> "idle", p0 |-> NULL, p |-> NULL, objs |-> <<>>, sel |-> <<>>,
     anchor |-> NoIndex]

DragInit == EngineInit /\ gh = NoDrag

DragDraw ==
    /\ mounted
    /\ tool # "select"
    /\ \E p \in DragPts : DownAt(p, FALSE, DragTools, LastRoom)
    /\ UNCHANGED gh

DragDown ==
    /\ mounted
    /\ tool = "select"
    /\ \E p \in GrabPts, shiftKey \in BOOLEAN :
        /\ DownAt(p, shiftKey, DragTools, LastRoom)
        /\ gh' = IF isDragging'
                 THEN [phase |-> "drag", pc |-> "dragging", p0 |-> p, p |-> NULL,
                       objs |-> objects, sel |-> selectedIndices',
                       \* the object dragOffset was measured from
                       anchor |-> IF shiftKey THEN At(selectedIndices, 0)
                                  ELSE getPosition(p.x, p.y)]
                 ELSE gh

DragMove ==
    /\ mounted
    /\ \E p \in (IF tool = "select" THEN MovePts ELSE DragPts) :
        /\ MoveTo(p)
        /\ gh' = IF gh.pc = "dragging" THEN [gh EXCEPT !.p = p] ELSE gh

DragUp == mounted /\ UpIn(LastRoom) /\ gh' = NoDrag
DragSelectAll == mounted /\ Idle /\ handleSelectAll /\ UNCHANGED gh
DragTool == mounted /\ Pick(DragTools) /\ UNCHANGED gh

DragNext ==
    \/ DragDraw
    \/ DragDown
    \/ DragMove
    \/ DragUp
    \/ DragSelectAll
    \/ DragTool

SpecDrag == DragInit /\ [][DragNext]_vars

\* An object without its identity.
Unref(obj) == [obj EXCEPT !.ref = 0]

\* Object i of the scene is object i of the pointer-down moved by (dx, dy).
MovedBy(i, dx, dy) == Unref(At(objects, i)) = Unref(Translate(At(gh.objs, i), dx, dy))

\* C9.  For a drag started by a select-tool pointer-down at p0 (a click on an
\* unselected object, a click on a member of the selection, a shift-click),
\* after a pointer-move to p every selected object is where it was at the
\* pointer-down plus exactly p - p0, and the other objects are unchanged.
C9_GroupMoveRigid ==
    (gh.pc = "dragging" /\ gh.p # NULL /\ isDragging) =>
        /\ Len(objects) = Len(gh.objs)
        /\ \A i \in 0..(Len(gh.objs) - 1) :
            IF Includes(gh.sel, i)
            THEN MovedBy(i, QSub(gh.p.x, gh.p0.x), QSub(gh.p.y, gh.p0.y))
            ELSE At(objects, i) = At(gh.objs, i)

\* The part of C9 the code keeps: the drag is rigid when dragOffset was
\* measured from the object that is first in the selection.
RigidFromFirst ==
    (gh.pc = "dragging" /\ gh.p # NULL /\ isDragging /\ Len(gh.sel) > 0
        /\ gh.anchor = At(gh.sel, 0)) =>
        /\ Len(objects) = Len(gh.objs)
        /\ \A i \in 0..(Len(gh.objs) - 1) :
            IF Includes(gh.sel, i)
            THEN MovedBy(i, QSub(gh.p.x, gh.p0.x), QSub(gh.p.y, gh.p0.y))
            ELSE At(objects, i) = At(gh.objs, i)

\* --------------------------------------------- the resize specification
\* Small and large rectangles and strokes are drawn and resized, alone or as
\* a group, by a handle dragged near and far.  gh.p is the last pointer-move
\* of the resize in flight.
ResizeCoords == {<<0, 0>>, <<1, 1>>, <<100, 100>>}
ResizePts == {IPt(c[1], c[2]) : c \in ResizeCoords}
FarPts == {IPt(50, 50), IPt(55, 55), IPt(-49, -49), IPt(-54, -54), IPt(0, 0), IPt(-200, 300)}
ResizeTools == {"select", "rectangle", "pen"}
Handles == {"top-left", "top-right", "bottom-left", "bottom-right"}

NoResize == [phase |-> "resize", p |-> NULL]

ResizeInit == EngineInit /\ gh = NoResize

\* The centre of a handle of the bounds b.
HandleCentre(handle, b) ==
    Pt(IF handle \in {"top-left", "bottom-left"}
       THEN QSub(b.x, I(handleMargin)) ELSE QAdd(QAdd(b.x, b.width), I(handleMargin)),
       IF handle \in {"top-left", "top-right"}
       THEN QSub(b.y, I(handleMargin)) ELSE QAdd(QAdd(b.y, b.height), I(handleMargin)))

\* Every object is drawn from the origin.
ResizeDraw ==
    /\ mounted
    /\ tool # "select"
    /\ DownAt(IPt(0, 0), FALSE, ResizeTools, Room)
    /\ UNCHANGED gh

\* A pointer-down on the centre of a handle of the selection that starts a
\* resize.
GrabAt(handle, groupBounds) ==
    /\ groupBounds # NULL
    /\ onStartDrawing(HandleCentre(handle, groupBounds).x,
                      HandleCentre(handle, groupBounds).y, FALSE)
    /\ isResizing'

ResizeGrab ==
    /\ mounted
    /\ Idle /\ ~isEditingText
    /\ tool = "select"
    /\ LastRoom
    /\ \E handle \in Handles : GrabAt(handle, getGroupBounds(objects, selectedIndices, TRUE))
    /\ gh' = NoResize

ResizeMove ==
    /\ mounted
    /\ \E p \in (IF isResizing THEN FarPts ELSE ResizePts) :
        /\ MoveTo(p)
        /\ gh' = IF isResizing THEN [gh EXCEPT !.p = p] ELSE gh

ResizeUp == mounted /\ UpIn(LastRoom) /\ gh' = NoResize
ResizeSelectAll == mounted /\ Idle /\ handleSelectAll /\ UNCHANGED gh
ResizeTool == mounted /\ Pick(ResizeTools) /\ UNCHANGED gh

ResizeNext ==
    \/ ResizeDraw
    \/ ResizeGrab
    \/ ResizeMove
    \/ ResizeUp
    \/ ResizeSelectAll
    \/ ResizeTool

SpecResize == ResizeInit /\ [][ResizeNext]_vars

\* The points of an object, in order.
PointsOf(obj) ==
    CASE obj.type = "stroke" -> obj.data.points
      [] obj.type = "shape" -> <<obj.data.start, obj.data.end>>
      [] OTHER -> <<obj.data.position>>

\* The coordinate c of a resized object is anchor + s * (original - anchor)
\* for the factor s.
ScaledBy(c, original, anchor, s) == c = QAdd(anchor, QMul(QSub(original, anchor), s))

\* ... for some factor s with 0.2 <= s <= 5: the coordinate stays on the
\* anchor, or on its side of it, between a fifth and five times as far.
ScaledInRange(c, original, anchor) ==
    IF original = anchor THEN c = anchor
    ELSE /\ QLe(minScale, QDiv(QSub(c, anchor), QSub(original, anchor)))
         /\ QLe(QDiv(QSub(c, anchor), QSub(original, anchor)), maxScale)

\* A pointer-move of the resize in flight has been applied.
Resized == isResizing /\ gh.p # NULL

\* The factors the pointer asks for, before any clamp: the new size of the
\* bounds over their size at pointer-down.
Theoretical ==
    LET sc == IF Len(selectedIndices) > 1
              THEN GroupScale(gh.p.x, gh.p.y) ELSE SingleScale(gh.p.x, gh.p.y)
    IN  [x |-> QDiv(sc.newBounds.width, initialBounds.width),
         y |-> QDiv(sc.newBounds.height, initialBounds.height)]

\* C10.  After every resize pointer-move, single-object or group, every
\* selected object is its original scaled about the anchor by factors within
\* [0.2, 5] on each axis; a pointer that asks for a factor of 50 gets 5.
C10_ScaleClamped ==
    Resized =>
        \A i \in 0..(Len(selectedIndices) - 1) :
            LET new == PointsOf(At(objects, At(selectedIndices, i)))
                old == PointsOf(StartDataAt(i))
                anchor == ResizeAnchor(resizeHandle, initialBounds)
            IN  \A k \in 1..Len(old) :
                    /\ ScaledInRange(new[k].x, old[k].x, anchor.x)
                    /\ ScaledInRange(new[k].y, old[k].y, anchor.y)
                    /\ Theoretical.x = I(50) => ScaledBy(new[k].x, old[k].x, anchor.x, I(5))
                    /\ Theoretical.y = I(50) => ScaledBy(new[k].y, old[k].y, anchor.y, I(5))

\* The pointer asks for 50 times the width, and a point of a selected object
\* that was off the anchor is five times as far from it.
C10_Witness ==
    /\ Resized
    /\ Theoretical.x = I(50)
    /\ \E i \in 0..(Len(selectedIndices) - 1) :
        \E k \in 1..Len(PointsOf(StartDataAt(i))) :
            /\ PointsOf(StartDataAt(i))[k].x # ResizeAnchor(resizeHandle, initialBounds).x
            /\ ScaledBy(PointsOf(At(objects, At(selectedIndices, i)))[k].x,
                        PointsOf(StartDataAt(i))[k].x,
                        ResizeAnchor(resizeHandle, initialBounds).x, I(5))

\* -------------------------------------------- the gesture specification
\* One physical pointer and the keyboard: the pointer goes down only when it
\* is up and the text input is closed, comes up only when it is down, and
\* moves at any time; a tool shortcut is pressed at any time the page listens
\* to the keyboard, a gesture in flight included.  gh.down is the physical
\* pointer, gh.last the last event.
GestureTools == {"select", "pen", "hand", "text"}

NoGesture == [phase |-> "gesture", down |-> FALSE, last |-> "none"]

GestureInit == EngineInit /\ gh = NoGesture

GestureDown ==
    /\ mounted
    /\ ~gh.down /\ ~isEditingText
    /\ tool \in GestureTools
    /\ Len(objects) < MaxObjects /\ LastRoom
    /\ tool = "hand" => canvasOffset = IPt(0, 0)
    /\ \E p \in Pts, shiftKey \in BOOLEAN : onStartDrawing(p.x, p.y, shiftKey)
    /\ gh' = [gh EXCEPT !.down = TRUE, !.last = "down"]

GestureMove == mounted /\ Move(Pts) /\ gh' = [gh EXCEPT !.last = "move"]

GestureUp ==
    /\ mounted
    /\ gh.down
    /\ onStopDrawing
    /\ gh' = [gh EXCEPT !.down = FALSE, !.last = "up"]

GestureText == mounted /\ Type(Texts) /\ gh' = [gh EXCEPT !.last = "text"]

GestureTool ==
    /\ mounted /\ ~isEditingText
    /\ \E t \in GestureTools : t # tool /\ setTool(t)
    /\ gh' = [gh EXCEPT !.last = "tool"]

GestureNext ==
    \/ GestureDown
    \/ GestureMove
    \/ GestureUp
    \/ GestureText
    \/ GestureTool

SpecGesture == GestureInit /\ [][GestureNext]_vars

\* The interaction flags that are set.
ActiveFlags ==
    {f \in {"drawing", "dragging", "resizing", "panning", "editing"} :
        CASE f = "drawing" -> isDrawing
          [] f = "dragging" -> isDragging
          [] f = "resizing" -> isResizing
          [] f = "panning" -> isPanning
          [] OTHER -> isEditingText}

\* C11.  In every state reachable by pointer-downs, pointer-moves,
\* pointer-ups, addText and tool changes, at most one of isDrawing,
\* isDragging, isResizing, isPanning and isEditingText is true.
C11_MutualExclusion == Cardinality(ActiveFlags) <= 1

\* C12.  After onStopDrawing returns, isDrawing, isDragging, isResizing and
\* isPanning are false and current is null, whatever the tool is then and
\* whatever it was at pointer-down.
C12_ReleaseEndsGesture ==
    gh.last = "up" =>
        ~isDrawing /\ ~isDragging /\ ~isResizing /\ ~isPanning /\ current = NULL

\* ------------------------------------------- the commands specification
\* Pen, text and select gestures, the keyboard commands, and a pan or a
\* change of the brush size before the first drawing, with one pointer as in the main specification, and addText called
\* by the page and directly.  After a pointer-down of the text tool, a
\* clear, a deleteSelected or an addText, gh holds the operation, its
\* argument and the state it was called in.
maxSize == 50

\* The page: setSize(prev => Math.min(prev + 1, 50)).
sizeUp ==
    /\ size' = QMin(QAdd(size, I(1)), I(maxSize))
    /\ UNCHANGED <<historyIndex, selectedIndices, gestureVars, textVars, viewVars,
                   tool, color, backgroundColor, canvas, mounted>>
    /\ NoRender

\* The page's colour buttons: setColor('#ef4444').
setColor(c) ==
    /\ color' = c
    /\ UNCHANGED <<historyIndex, selectedIndices, gestureVars, textVars, viewVars,
                   tool, size, backgroundColor, canvas, mounted>>
    /\ NoRender

CmdTools == {"select", "pen", "text", "hand"}
CmdTexts == {"hi", " ", ""}

Quiet == [phase |-> "cmd", op |-> "none", arg |-> NULL, before |-> NULL]

Called(op, arg) ==
    [phase |-> "cmd", op |-> op, arg |-> arg,
     before |-> [objects |-> objects, history |-> history, historyIndex |-> historyIndex,
                 selectedIndices |-> selectedIndices, textPosition |-> textPosition,
                 size |-> size, color |-> color]]

CmdInit == EngineInit /\ gh = Quiet

\* The view and the brush are set up before anything is drawn.
Fresh == Len(history) = 1 /\ canvasOffset = IPt(0, 0) /\ size = I(5)

CmdDown ==
    /\ mounted
    /\ tool = "hand" => Fresh
    /\ tool # "select" => Room
    /\ \E p \in Pts, shiftKey \in BOOLEAN :
        /\ DownAt(p, shiftKey, CmdTools, LastRoom)
        /\ gh' = IF tool = "text" THEN Called("textDown", p) ELSE Quiet

\* A click selects; the objects are not dragged or resized here.
CmdMove == mounted /\ ~isDragging /\ ~isResizing /\ Move(Pts) /\ gh' = Quiet
CmdUp == mounted /\ UpIn(LastRoom) /\ gh' = Quiet

\* The text form submits.
CmdSubmit ==
    /\ mounted
    /\ \E text \in CmdTexts :
        /\ isEditingText /\ textPosition # NULL
        /\ CanGrow
        /\ handleTextSubmit(text)
        /\ gh' = Called("addText", text)

\* addText called with no text form on the page.
CmdAddText ==
    /\ mounted
    /\ ~(isEditingText /\ textPosition # NULL)
    /\ CanGrow
    /\ \E text \in CmdTexts :
        /\ addText(text, "Arial")
        /\ gh' = Called("addText", text)

CmdClear ==
    /\ mounted /\ ~isEditingText
    /\ Len(objects) > 0 => Room
    /\ clear
    /\ gh' = Called("clear", NULL)

CmdDelete ==
    /\ mounted /\ ~isEditingText
    /\ Len(selectedIndices) > 0 => historyIndex < MaxHistory
    /\ deleteSelected
    /\ gh' = Called("delete", NULL)

CmdSelectAll == mounted /\ ~isEditingText /\ handleSelectAll /\ gh' = Quiet
CmdTool == mounted /\ ~isEditingText /\ Pick(CmdTools) /\ gh' = Quiet
CmdSize == mounted /\ ~isEditingText /\ Fresh /\ sizeUp /\ gh' = Quiet

CmdNext ==
    \/ CmdDown
    \/ CmdMove
    \/ CmdUp
    \/ CmdSubmit
    \/ CmdAddText
    \/ CmdClear
    \/ CmdDelete
    \/ CmdSelectAll
    \/ CmdTool
    \/ CmdSize

SpecCommands == CmdInit /\ [][CmdNext]_vars

\* The scene, the history, the cursor and the selection are as the operation
\* found them.
Untouched ==
    /\ objects = gh.before.objects
    /\ history = gh.before.history
    /\ historyIndex = gh.before.historyIndex
    /\ selectedIndices = gh.before.selectedIndices

\* The operation pushed exactly one snapshot, snapshot, after the snapshot it
\* was called on.
PushedOne(snapshot) ==
    /\ historyIndex = gh.before.historyIndex + 1
    /\ history = Append(SubSeq(gh.before.history, 1, gh.before.historyIndex + 1), snapshot)

\* C13.  clear() on an empty scene changes nothing; on a non-empty scene it
\* empties the scene and the selection and pushes exactly one empty snapshot.
C13_ClearIdempotent ==
    gh.op = "clear" =>
        IF Len(gh.before.objects) = 0 THEN Untouched
        ELSE objects = <<>> /\ selectedIndices = <<>> /\ PushedOne(<<>>)

\* clear() was called on a scene that an earlier clear() had emptied.
C13_Witness ==
    /\ gh.op = "clear"
    /\ gh.before.objects = <<>>
    /\ Len(history) >= 3 /\ history[Len(history)] = <<>>

\* The number of selected positions below index i of the scene deleteSelected
\* was called on.
SelectedBelow(i) ==
    Cardinality({j \in 0..(i - 1) : Includes(gh.before.selectedIndices, j)})

\* C14.  deleteSelected with a non-empty selection removes exactly the objects
\* at the selected indices, keeps the others unchanged and in order, empties
\* the selection and pushes exactly one snapshot; with an empty selection it
\* changes nothing.
C14_DeleteSelected ==
    gh.op = "delete" =>
        IF Len(gh.before.selectedIndices) = 0 THEN Untouched
        ELSE /\ Len(objects) = Len(gh.before.objects) - SelectedBelow(Len(gh.before.objects))
             /\ \A i \in 0..(Len(gh.before.objects) - 1) :
                    ~Includes(gh.before.selectedIndices, i) =>
                        At(objects, i - SelectedBelow(i)) = At(gh.before.objects, i)
             /\ selectedIndices = <<>>
             /\ PushedOne(objects)

\* The first of two objects was deleted and the second is now the first.
C14_Witness ==
    /\ gh.op = "delete"
    /\ Len(gh.before.objects) = 2 /\ gh.before.selectedIndices = <<0>>
    /\ objects = <<At(gh.before.objects, 1)>>

\* C15.  addText with empty or whitespace-only text, or with no pending text
\* anchor, leaves scene, history, cursor and selection unchanged, isEditingText
\* false and textPosition null.
C15_EmptyTextNoOp ==
    (gh.op = "addText" /\ (gh.arg \in {"", " "} \/ gh.before.textPosition = NULL)) =>
        Untouched /\ ~isEditingText /\ textPosition = NULL

\* A whitespace-only text was submitted at a pending anchor beside an
\* existing object.
C15_Witness ==
    /\ gh.op = "addText" /\ gh.arg = " "
    /\ gh.before.textPosition # NULL
    /\ Len(objects) >= 1 /\ ~isEditingText

\* C16.  A pointer-down of the text tool records the anchor in document
\* space and sets isEditingText without changing the scene or the history; a
\* following addText with non-empty trimmed text appends exactly one text
\* object at that anchor, sized three times the brush size, leaves the
\* existing objects unchanged, pushes exactly one snapshot and ends the edit.
C16_TextTool ==
    /\ gh.op = "textDown" =>
        /\ objects = gh.before.objects
        /\ history = gh.before.history
        /\ historyIndex = gh.before.historyIndex
        /\ isEditingText
        /\ textPosition = Pt(QDiv(QSub(gh.arg.x, canvasOffset.x), zoom),
                             QDiv(QSub(gh.arg.y, canvasOffset.y), zoom))
    /\ (gh.op = "addText" /\ gh.arg = "hi" /\ gh.before.textPosition # NULL) =>
        /\ Len(objects) = Len(gh.before.objects) + 1
        /\ SubSeq(objects, 1, Len(gh.before.objects)) = gh.before.objects
        /\ objects[Len(objects)].type = "text"
        /\ objects[Len(objects)].data.text = "hi"
        /\ objects[Len(objects)].data.position = gh.before.textPosition
        /\ objects[Len(objects)].data.size = QMul(I(3), gh.before.size)
        /\ PushedOne(objects)
        /\ ~isEditingText /\ textPosition = NULL

\* A text was added beside an existing object, on a panned canvas.
C16_Witness ==
    /\ gh.op = "addText" /\ gh.arg = "hi"
    /\ Len(objects) = 2 /\ objects[2].type = "text"
    /\ canvasOffset # IPt(0, 0)
    /\ objects[2].data.position = gh.before.textPosition

\* ---------------------------------------------- the click specification
\* Rectangles are drawn, then clicked, shift-clicked and rubber-banded with
\* the select tool; the objects are not dragged.  gh holds the last pointer
\* event: for a pointer-down the point, the shift key, and the selection,
\* the object under the pointer and the handle test before it; for the
\* pointer-up of a selection box the box; and the scene and history at the
\* pointer-down of the gesture.
ClickCoords == {<<0, 0>>, <<20, 20>>, <<40, 40>>}
ClickPts == {IPt(c[1], c[2]) : c \in ClickCoords}
ProbePts == {IPt(10, 10), IPt(30, 30), IPt(50, 50)}
ClickTools == {"select", "rectangle"}

NoClick ==
    [phase |-> "click", last |-> "none", p |-> NULL, shift |-> FALSE, was |-> <<>>,
     hit |-> NoIndex, handle |-> 0, box |-> NULL, at |-> NULL]

ClickInit == EngineInit /\ gh = NoClick

ClickDraw ==
    /\ mounted
    /\ tool # "select"
    /\ \E p \in ClickPts : DownAt(p, FALSE, ClickTools, Room)
    /\ gh' = NoClick

ClickDown ==
    /\ mounted
    /\ tool = "select"
    /\ \E p \in ProbePts, shiftKey \in BOOLEAN :
        /\ DownAt(p, shiftKey, ClickTools, historyIndex < MaxHistory)
        /\ gh' = [phase |-> "click", last |-> "down", p |-> p, shift |-> shiftKey,
                  was |-> selectedIndices, hit |-> getPosition(p.x, p.y),
                  handle |-> HandleAt(p.x, p.y).branch, box |-> NULL,
                  at |-> [objects |-> objects, history |-> history,
                          historyIndex |-> historyIndex]]

ClickMove ==
    /\ mounted
    /\ isDrawing
    /\ \E p \in (IF tool = "select" THEN ProbePts ELSE ClickPts) : MoveTo(p)
    /\ gh' = IF gh.at # NULL THEN [gh EXCEPT !.last = "move"] ELSE gh

ClickUp ==
    /\ mounted
    /\ (isResizing \/ isDragging \/ Commits) => historyIndex < MaxHistory
    /\ Commits => Len(objects) < MaxObjects
    /\ onStopDrawing
    /\ gh' = IF tool = "select" /\ isDrawing /\ gh.at # NULL
             THEN [gh EXCEPT !.last = "up", !.box = current]
             ELSE IF tool = "select" /\ gh.last = "down" /\ gh.handle = 0
                     /\ gh.hit # NoIndex
             THEN [gh EXCEPT !.last = "clicked"]
             ELSE NoClick

ClickSelectAll == mounted /\ Idle /\ handleSelectAll /\ gh' = NoClick
ClickTool == mounted /\ Pick(ClickTools) /\ gh' = NoClick

ClickNext ==
    \/ ClickDraw
    \/ ClickDown
    \/ ClickMove
    \/ ClickUp
    \/ ClickSelectAll
    \/ ClickTool

SpecClick == ClickInit /\ [][ClickNext]_vars

\* The pointer went down on object gh.hit and on no resize handle.
ClickedObject == gh.last = "down" /\ gh.handle = 0 /\ gh.hit # NoIndex

\* The selection with gh.hit toggled.
Toggled ==
    IF Includes(gh.was, gh.hit)
    THEN SelectSeq(gh.was, LAMBDA i : i # gh.hit) ELSE Append(gh.was, gh.hit)

\* C17, as claimed.  A select-tool pointer-down on object i and on no resize
\* handle toggles i in the selection when shift is held, and otherwise
\* replaces the selection with exactly [i] and enters dragging.
C17_ClickReplaces ==
    ClickedObject =>
        IF gh.shift THEN selectedIndices = Toggled
        ELSE selectedIndices = <<gh.hit>> /\ isDragging

\* C17, amended.  ... and otherwise enters dragging with the selection kept
\* when i is already selected and replaced by exactly [i] when it is not.
C17_ClickDispatch ==
    ClickedObject =>
        IF gh.shift THEN selectedIndices = Toggled
        ELSE /\ selectedIndices = IF Includes(gh.was, gh.hit) THEN gh.was ELSE <<gh.hit>>
             /\ isDragging

\* A plain click on a member of a selection of two kept both selected.
C17_Witness ==
    /\ ClickedObject /\ ~gh.shift
    /\ Len(gh.was) = 2 /\ Includes(gh.was, gh.hit)
    /\ selectedIndices = gh.was /\ isDragging

\* The closed rectangle of the bounds b and the closed drag rectangle of the
\* box share a point.
Overlaps(b, box) ==
    /\ QLe(QMax(b.x, QMin(box.start.x, box.end.x)),
           QMin(QAdd(b.x, b.width), QMax(box.start.x, box.end.x)))
    /\ QLe(QMax(b.y, QMin(box.start.y, box.end.y)),
           QMin(QAdd(b.y, b.height), QMax(box.start.y, box.end.y)))

\* C18.  A select-tool pointer-down on empty space clears the selection and
\* starts a selection box; at pointer-up the selection is exactly the set of
\* indices whose bounding box overlaps the drag rectangle, empty if none
\* does; the gesture never changes objects, history or historyIndex.
C18_RubberBand ==
    /\ (gh.last = "down" /\ gh.handle = 0 /\ gh.hit = NoIndex) =>
        /\ selectedIndices = <<>>
        /\ isDrawing /\ current = [start |-> gh.p, end |-> gh.p]
    /\ (gh.last = "up" /\ gh.box # NULL) =>
        /\ {selectedIndices[k] : k \in 1..Len(selectedIndices)} =
              {i \in 0..(Len(objects) - 1) : Overlaps(ObjectBounds(At(objects, i)), gh.box)}
        /\ Len(selectedIndices) = Cardinality({selectedIndices[k] : k \in 1..Len(selectedIndices)})
        /\ ~isDrawing /\ current = NULL
    /\ (gh.at # NULL /\ gh.handle = 0 /\ gh.hit = NoIndex) =>
        /\ objects = gh.at.objects
        /\ history = gh.at.history
        /\ historyIndex = gh.at.historyIndex

\* A box that cuts through one of two objects, without containing it,
\* selected that object alone.
C18_Witness ==
    /\ gh.last = "up" /\ gh.box # NULL
    /\ Len(objects) = 2 /\ Len(selectedIndices) = 1
    /\ ~isBoundsInsideSelection(ObjectBounds(At(objects, At(selectedIndices, 0))), gh.box)

\* The pointer went down on object gh.hit and on no resize handle, and came
\* up again with no pointer-move in between.
Clicked == gh.last = "clicked"

\* C35.  A select-tool pointer-down on an object, plain or with shift,
\* followed by a pointer-up with no pointer-move in between leaves history,
\* historyIndex and canRedo as they were at the pointer-down.
C35_SelectingKeepsHistory ==
    Clicked =>
        /\ history = gh.at.history
        /\ historyIndex = gh.at.historyIndex
        /\ canRedo = (gh.at.historyIndex < Len(gh.at.history) - 1)

\* The shift-click with nothing selected: it selects the object, starts no
\* drag, and its pointer-up commits nothing.
FirstShiftClickKeepsHistory ==
    (Clicked /\ gh.shift /\ Len(gh.was) = 0) =>
        /\ history = gh.at.history
        /\ historyIndex = gh.at.historyIndex

\* A plain click and release on an object pushed a snapshot equal to the one
\* before it.
PlainClickCommitted ==
    /\ Clicked /\ ~gh.shift
    /\ historyIndex = gh.at.historyIndex + 1
    /\ At(history, historyIndex) = At(history, historyIndex - 1)

\* ------------------------------------------------ the pan specification
\* A pen stroke is drawn and selected or not, the zoom is stepped around 1,
\* and the canvas is panned with the hand tool, MaxPans times at most.  gh
\* holds the pan gesture: its stage, the pointer-down point s0, the last
\* pointer point s, and the scene, history, selection and viewport at the
\* pointer-down.
MaxPans == 2
PanPts == {IPt(0, 0), IPt(20, 10), IPt(-5, 30)}
PanTools == {"pen", "hand"}

NoPan(n) == [phase |-> "pan", stage |-> "none", s0 |-> NULL, s |-> NULL, at |-> NULL,
             pans |-> n]

PanInit == EngineInit /\ gh = NoPan(0)

PanDown ==
    /\ mounted
    /\ tool = "hand" => gh.pans < MaxPans
    /\ tool = "pen" => Len(objects) = 0
    /\ \E p \in PanPts :
        /\ DownAt(p, FALSE, PanTools, Room)
        /\ gh' = IF tool = "hand"
                 THEN [phase |-> "pan", stage |-> "down", s0 |-> p, s |-> p,
                       at |-> [objects |-> objects, history |-> history,
                               historyIndex |-> historyIndex,
                               selectedIndices |-> selectedIndices,
                               zoom |-> zoom, canvasOffset |-> canvasOffset],
                       pans |-> gh.pans + 1]
                 ELSE NoPan(gh.pans)

PanMove ==
    /\ mounted
    /\ \E p \in PanPts :
        /\ MoveTo(p)
        /\ gh' = IF gh.stage \in {"down", "move"}
                 THEN [gh EXCEPT !.stage = "move", !.s = p] ELSE gh

PanUp ==
    /\ mounted
    /\ ~Idle
    /\ UpIn(Room)
    /\ gh' = IF gh.stage \in {"down", "move"} THEN [gh EXCEPT !.stage = "up"] ELSE gh

PanZoom ==
    /\ mounted /\ Idle
    /\ \E in \in BOOLEAN :
        IF in THEN QLe(zoom, I(1)) /\ zoomIn ELSE QLe(I(1), zoom) /\ zoomOut
    /\ gh' = NoPan(gh.pans)

PanFrame == mounted /\ runFrame /\ UNCHANGED gh
PanSelectAll == mounted /\ Idle /\ ~isEditingText /\ handleSelectAll /\ gh' = NoPan(gh.pans)
PanTool == mounted /\ ~isEditingText /\ Pick(PanTools) /\ gh' = NoPan(gh.pans)

PanNext ==
    \/ PanDown
    \/ PanMove
    \/ PanUp
    \/ PanZoom
    \/ PanFrame
    \/ PanSelectAll
    \/ PanTool

SpecPan == PanInit /\ [][PanNext]_vars

\* C19.  From the pointer-down of a hand-tool gesture at s0 to its
\* pointer-up, objects, history, historyIndex, selectedIndices and zoom are
\* what they were at the pointer-down, and canvasOffset is its value at the
\* pointer-down plus (s - s0), s being the last pointer point; the pointer-up
\* ends the panning.
C19_PanGesture ==
    gh.stage # "none" =>
        /\ objects = gh.at.objects
        /\ history = gh.at.history
        /\ historyIndex = gh.at.historyIndex
        /\ selectedIndices = gh.at.selectedIndices
        /\ zoom = gh.at.zoom
        /\ canvasOffset = Pt(QAdd(gh.at.canvasOffset.x, QSub(gh.s.x, gh.s0.x)),
                             QAdd(gh.at.canvasOffset.y, QSub(gh.s.y, gh.s0.y)))
        /\ gh.stage = "up" => ~isPanning /\ panStart = NULL

\* A complete pan of a zoomed, already panned canvas with a selected stroke,
\* ending away from where it started.
C19_Witness ==
    /\ gh.stage = "up" /\ gh.s # gh.s0
    /\ Len(objects) = 1 /\ Len(selectedIndices) = 1
    /\ gh.at.zoom # I(1)
    /\ gh.at.canvasOffset # IPt(0, 0)

\* ----------------------------------------------- the zoom specification
\* The zoom buttons, the reset button and the wheel over the canvas, in any
\* order.  The wheel turns at the origin of the canvas element or at
\* (10, 10); to keep the offsets in a finite set, the buttons are pressed,
\* the wheel is turned away from the origin, and the canvas is scrolled,
\* only while the offset is (0, 0), where resetZoom brings it back.  gh
\* holds the last operation and the viewport before it.
WheelPts == {IPt(0, 0), IPt(10, 10)}
WheelDeltas == {-100, 0, 100}
AtOrigin == canvasOffset = IPt(0, 0)

Viewed(op) ==
    [phase |-> "zoom", op |-> op, before |-> [zoom |-> zoom, canvasOffset |-> canvasOffset]]

ZoomInit == EngineInit /\ gh = Viewed("none")

ZoomIn == mounted /\ AtOrigin /\ zoomIn /\ gh' = Viewed("zoomIn")
ZoomOut == mounted /\ AtOrigin /\ zoomOut /\ gh' = Viewed("zoomOut")
ZoomReset == mounted /\ resetZoom /\ gh' = Viewed("resetZoom")

ZoomWheel ==
    /\ mounted /\ canvas
    /\ \E mouse \in WheelPts, deltaY \in WheelDeltas :
        /\ mouse # IPt(0, 0) => AtOrigin
        /\ handleWheel(mouse.x, mouse.y, deltaY, TRUE, FALSE)
    /\ gh' = Viewed("wheel")

ZoomScroll ==
    /\ mounted /\ canvas
    /\ AtOrigin
    /\ \E shiftKey \in BOOLEAN : handleWheel(I(0), I(0), 100, FALSE, shiftKey)
    /\ gh' = Viewed("scroll")

ZoomFrame == mounted /\ runFrame /\ UNCHANGED gh

ZoomNext ==
    \/ ZoomIn
    \/ ZoomOut
    \/ ZoomReset
    \/ ZoomWheel
    \/ ZoomScroll
    \/ ZoomFrame

SpecZoom == ZoomInit /\ [][ZoomNext]_vars

\* C20.  The zoom is never below 0.2 nor above 5; zoomIn leaves it 0.1
\* above what it was, or at 5 when that would pass 5; zoomOut leaves it 0.1
\* below what it was, or at 0.2 when that would pass 0.2; resetZoom leaves
\* the zoom at 1 and the offset at (0, 0).
C20_ZoomBound ==
    /\ QLe(<<1, 5>>, zoom) /\ QLe(zoom, I(5))
    /\ gh.op = "zoomIn" =>
        zoom = IF QLe(QAdd(gh.before.zoom, <<1, 10>>), I(5))
               THEN QAdd(gh.before.zoom, <<1, 10>>) ELSE I(5)
    /\ gh.op = "zoomOut" =>
        zoom = IF QLe(<<1, 5>>, QSub(gh.before.zoom, <<1, 10>>))
               THEN QSub(gh.before.zoom, <<1, 10>>) ELSE <<1, 5>>
    /\ gh.op = "resetZoom" => zoom = I(1) /\ canvasOffset = IPt(0, 0)

\* zoomIn was called at zoom 5 and left it there.
C20_Witness == gh.op = "zoomIn" /\ gh.before.zoom = I(5) /\ zoom = I(5)

\* ---------------------------------------------- the wheel specification
\* Ctrl/meta wheel events over the canvas, React's render and effects,
\* which come after a wheel event or after a burst of them, and the reset
\* button.  As in
\* the zoom specification, the wheel turns away from the origin only while
\* the offset of the last render is (0, 0).  gh holds the last wheel event:
\* its screen point, the viewport state before it, and whether a render was
\* due when it came.
Turned(p, inBurst) ==
    [phase |-> "wheel", last |-> "wheel", p |-> p, inBurst |-> inBurst,
     before |-> [zoom |-> zoom, canvasOffset |-> canvasOffset]]
NoWheel ==
    [phase |-> "wheel", last |-> "none", p |-> NULL, inBurst |-> FALSE, before |-> NULL]

WheelInit == EngineInit /\ gh = NoWheel

WheelTurn ==
    /\ mounted /\ canvas
    /\ \E mouse \in WheelPts, deltaY \in {-100, 100} :
        /\ mouse # IPt(0, 0) => viewRef.canvasOffset = IPt(0, 0)
        /\ handleWheelThen(mouse.x, mouse.y, deltaY, TRUE, FALSE, FALSE)
        /\ gh' = Turned(mouse, viewRef.due)

WheelFlush == mounted /\ flushRender /\ UNCHANGED gh
WheelReset == mounted /\ resetZoom /\ gh' = [NoWheel EXCEPT !.last = "reset"]
WheelFrame == mounted /\ runFrame /\ UNCHANGED gh

WheelNext ==
    \/ WheelTurn
    \/ WheelFlush
    \/ WheelReset
    \/ WheelFrame

SpecWheel == WheelInit /\ [][WheelNext]_vars

\* The document point under the screen point p at the given zoom and offset.
Under(p, z, offset) == Pt(QDiv(QSub(p.x, offset.x), z), QDiv(QSub(p.y, offset.y), z))

\* C21.  After a ctrl/meta wheel event at screen point p the document point
\* under p is what it was before the event:
\* (p - offset) / zoom = (p - offset') / zoom', for each event of a burst
\* as well.
C21_ZoomToCursor ==
    gh.last = "wheel" =>
        Under(gh.p, zoom, canvasOffset) = Under(gh.p, gh.before.zoom, gh.before.canvasOffset)

\* The same for the wheel events that find the render of every earlier
\* event done.
ZoomToCursorRendered ==
    gh.last = "wheel" /\ ~gh.inBurst =>
        Under(gh.p, zoom, canvasOffset) = Under(gh.p, gh.before.zoom, gh.before.canvasOffset)

\* ------------------------------------------- the detached specification
\* The hook is used with its ref attached to no canvas, and the operations
\* it returns are called in any order, with any tool.  gh holds the last
\* operation called and the scene, history, selection and viewport before
\* the call.
DetachedTools == {"pen", "select", "hand", "text"}

Detached(op) ==
    [phase |-> "detached", op |-> op,
     before |-> [objects |-> objects, history |-> history, historyIndex |-> historyIndex,
                 selectedIndices |-> selectedIndices, zoom |-> zoom,
                 canvasOffset |-> canvasOffset]]

DetachedInit == HookInit(FALSE) /\ gh = Detached("none")

DetachedDown ==
    /\ \E p \in Pts, shiftKey \in BOOLEAN : onStartDrawing(p.x, p.y, shiftKey)
    /\ gh' = Detached("onStartDrawing")
DetachedMove == (\E p \in Pts : onDrawing(p.x, p.y)) /\ gh' = Detached("onDrawing")
DetachedUp == onStopDrawing /\ gh' = Detached("onStopDrawing")
DetachedText == (\E text \in CmdTexts : addText(text, "Arial")) /\ gh' = Detached("addText")
DetachedClear == clear /\ gh' = Detached("clear")
DetachedDelete == deleteSelected /\ gh' = Detached("deleteSelected")
DetachedSelectAll == selectAll /\ gh' = Detached("selectAll")
DetachedUndo == undo /\ gh' = Detached("undo")
DetachedRedo == redo /\ gh' = Detached("redo")
DetachedZoomIn == zoomIn /\ gh' = Detached("zoomIn")
DetachedZoomOut == zoomOut /\ gh' = Detached("zoomOut")
DetachedReset == resetZoom /\ gh' = Detached("resetZoom")
DetachedImage == toImage /\ gh' = Detached("toImage")
DetachedTool == (\E t \in DetachedTools : t # tool /\ setTool(t)) /\ gh' = Detached("none")

DetachedNext ==
    \/ DetachedDown
    \/ DetachedMove
    \/ DetachedUp
    \/ DetachedText
    \/ DetachedClear
    \/ DetachedDelete
    \/ DetachedSelectAll
    \/ DetachedUndo
    \/ DetachedRedo
    \/ DetachedZoomIn
    \/ DetachedZoomOut
    \/ DetachedReset
    \/ DetachedImage
    \/ DetachedTool

SpecDetached == DetachedInit /\ [][DetachedNext]_vars

\* The scene, history and selection are as before the last call.
SceneAsBefore ==
    /\ objects = gh.before.objects
    /\ history = gh.before.history
    /\ historyIndex = gh.before.historyIndex
    /\ selectedIndices = gh.before.selectedIndices

\* C22.  With no canvas attached, each exposed operation leaves objects,
\* history, historyIndex, selectedIndices, zoom and canvasOffset as they
\* were before the call.
C22_DetachedNoOp ==
    gh.op # "none" =>
        /\ SceneAsBefore
        /\ zoom = gh.before.zoom
        /\ canvasOffset = gh.before.canvasOffset

\* The same without the three zoom operations.
DetachedNoOpButZoom ==
    gh.op \notin {"none", "zoomIn", "zoomOut", "resetZoom"} =>
        /\ SceneAsBefore
        /\ zoom = gh.before.zoom
        /\ canvasOffset = gh.before.canvasOffset

\* --------------------------------------------- the bounds specification
\* getStrokeBounds and getShapeBounds, applied to every stroke of one to
\* MaxStroke points among StrokePts and to every shape of the four types
\* with start and end among ShapePts.  gh holds the input and, once the function is applied,
\* its result.
MaxStroke == 3
StrokePts == {IPt(0, 0), IPt(10, 0), IPt(10, 10), IPt(-5, 3)}
ShapePts == {IPt(50, 50), IPt(60, 50), IPt(53, 54), IPt(50, 40), IPt(45, 47)}

RECURSIVE SeqsUpTo(_, _)
SeqsUpTo(S, n) ==
    IF n = 0 THEN {<<>>}
    ELSE SeqsUpTo(S, n - 1) \cup {Append(q, e) : q \in SeqsUpTo(S, n - 1), e \in S}

BoundsInit ==
    /\ EngineInit
    /\ gh \in {[phase |-> "bounds", kind |-> "stroke", points |-> q, out |-> NULL] :
                 q \in SeqsUpTo(StrokePts, MaxStroke) \ {<<>>}}
          \cup {[phase |-> "bounds", kind |-> "shape",
                 shape |-> [type |-> t, start |-> a, end |-> b], out |-> NULL] :
                 t \in ShapeTools, a \in ShapePts, b \in ShapePts}

BoundsStroke ==
    /\ gh.kind = "stroke" /\ gh.out = NULL
    /\ gh' = [gh EXCEPT !.out = getStrokeBounds(gh.points)]
    /\ UNCHANGED engineVars

BoundsShape ==
    /\ gh.kind = "shape" /\ gh.out = NULL
    /\ gh' = [gh EXCEPT !.out = getShapeBounds(gh.shape)]
    /\ UNCHANGED engineVars

BoundsNext ==
    \/ BoundsStroke
    \/ BoundsShape

SpecBounds == BoundsInit /\ [][BoundsNext]_vars

\* b is the smallest box with sides along the axes that holds the points P.
BoxOf(b, P) ==
    /\ \E p \in P : p.x = b.x
    /\ \E p \in P : p.y = b.y
    /\ \E p \in P : p.x = QAdd(b.x, b.width)
    /\ \E p \in P : p.y = QAdd(b.y, b.height)
    /\ \A p \in P : QLe(b.x, p.x) /\ QLe(p.x, QAdd(b.x, b.width))
    /\ \A p \in P : QLe(b.y, p.y) /\ QLe(p.y, QAdd(b.y, b.height))

\* r is the distance from a to b, to a thousandth from below.
IsDistance(r, a, b) ==
    LET dx == QSub(b.x, a.x)
        dy == QSub(b.y, a.y)
        d2 == QAdd(QMul(dx, dx), QMul(dy, dy))
        up == QAdd(r, <<1, 1000>>)
    IN  QLe(I(0), r) /\ QLe(QMul(r, r), d2) /\ QLt(d2, QMul(up, up))

\* C23.  getStrokeBounds returns the box from the least to the greatest x
\* and y of the points, 0 by 0 at the point for a single point;
\* getShapeBounds returns the box of start and end for a rectangle, a line
\* and an arrow, and for a circle the square centred at start of side 2r, r
\* the distance from start to end.
C23_ObjectBounds ==
    gh.out # NULL =>
        IF gh.kind = "stroke"
        THEN /\ BoxOf(gh.out, {gh.points[k] : k \in 1..Len(gh.points)})
             /\ Len(gh.points) = 1 =>
                    gh.out = [x |-> gh.points[1].x, y |-> gh.points[1].y,
                              width |-> I(0), height |-> I(0)]
        ELSE IF gh.shape.type = "circle"
        THEN /\ gh.out.height = gh.out.width
             /\ IsDistance(QDiv(gh.out.width, I(2)), gh.shape.start, gh.shape.end)
             /\ gh.shape.start = Pt(QAdd(gh.out.x, QDiv(gh.out.width, I(2))),
                                    QAdd(gh.out.y, QDiv(gh.out.height, I(2))))
             /\ (gh.shape.start = IPt(50, 50) /\ gh.shape.end = IPt(60, 50)) =>
                    gh.out = [x |-> I(40), y |-> I(40), width |-> I(20), height |-> I(20)]
        ELSE BoxOf(gh.out, {gh.shape.start, gh.shape.end})

\* The bounds of the circle from (50, 50) to (60, 50) were computed.
C23_Witness ==
    /\ gh.out # NULL /\ gh.kind = "shape" /\ gh.shape.type = "circle"
    /\ gh.shape.start = IPt(50, 50) /\ gh.shape.end = IPt(60, 50)

\* ---------------------------------------------- the group specification
\* getGroupBounds, applied to every scene of MaxGroup objects among
\* GroupObjects, every list of distinct indices of the scene, the empty
\* list included, with and without a 2d context.  gh holds the input and, once the function is
\* applied, its result.
MaxGroup == 3
GroupStroke(points) ==
    [type |-> "stroke", ref |-> 0,
     data |-> [color |-> "#000000", size |-> I(5), tool |-> "pen", points |-> points]]
GroupShape(t, a, b) ==
    [type |-> "shape", ref |-> 0,
     data |-> [color |-> "#000000", size |-> I(5), tool |-> t, type |-> t,
               start |-> a, end |-> b]]
GroupText(text, at) ==
    [type |-> "text", ref |-> 0,
     data |-> [text |-> text, position |-> at, color |-> "#000000", size |-> I(15),
               font |-> "Arial"]]
GroupObjects ==
    {GroupStroke(<<IPt(0, 0)>>), GroupStroke(<<IPt(30, 10)>>),
     GroupStroke(<<IPt(0, 0), IPt(10, 20)>>),
     GroupShape("rectangle", IPt(40, 15), IPt(5, 5)),
     GroupShape("line", IPt(0, 0), IPt(10, 0)),
     GroupText("hi", IPt(20, 20))}

\* The lists of distinct elements of S.
RECURSIVE ListsOf(_)
ListsOf(S) ==
    {<<>>} \cup UNION {{<<e>> \o q : q \in ListsOf(S \ {e})} : e \in S}

GroupInit ==
    /\ EngineInit
    /\ gh \in {[phase |-> "group", objs |-> objs, indices |-> indices, ctx |-> ctx,
                done |-> FALSE, out |-> NULL] :
                 objs \in {q \in SeqsUpTo(GroupObjects, MaxGroup) : Len(q) = MaxGroup},
                 indices \in ListsOf(0..(MaxGroup - 1)), ctx \in BOOLEAN}

GroupApply ==
    /\ ~gh.done
    /\ gh' = [gh EXCEPT !.done = TRUE, !.out = getGroupBounds(gh.objs, gh.indices, gh.ctx)]
    /\ UNCHANGED engineVars

GroupNext ==
    \/ GroupApply

SpecGroup == GroupInit /\ [][GroupNext]_vars

\* The members of the group.
Members == {At(gh.objs, gh.indices[k]) : k \in 1..Len(gh.indices)}
\* The members that have bounds: a text has none without a 2d context.
Bounded == {m \in Members : m.type # "text" \/ gh.ctx}
ZeroArea(b) == b.width = I(0) \/ b.height = I(0)

\* b is the union box of the bounds of the objects in G.
UnionOf(b, G) ==
    /\ \E m \in G : ObjectBounds(m).x = b.x
    /\ \E m \in G : ObjectBounds(m).y = b.y
    /\ \E m \in G : QAdd(ObjectBounds(m).x, ObjectBounds(m).width) = QAdd(b.x, b.width)
    /\ \E m \in G : QAdd(ObjectBounds(m).y, ObjectBounds(m).height) = QAdd(b.y, b.height)
    /\ \A m \in G : /\ QLe(b.x, ObjectBounds(m).x)
                    /\ QLe(b.y, ObjectBounds(m).y)
                    /\ QLe(QAdd(ObjectBounds(m).x, ObjectBounds(m).width), QAdd(b.x, b.width))
                    /\ QLe(QAdd(ObjectBounds(m).y, ObjectBounds(m).height),
                           QAdd(b.y, b.height))

\* C24, as claimed.  getGroupBounds returns null if the index list is empty
\* or every member has zero area, and the union box of the members
\* otherwise.
C24_GroupBoundsOrNull ==
    gh.done =>
        IF Members = {} \/ \A m \in Members : ZeroArea(ObjectBounds(m))
        THEN gh.out = NULL
        ELSE gh.out # NULL /\ UnionOf(gh.out, Members)

\* C24, amended.  getGroupBounds returns null if the index list is empty or
\* no member has bounds, and otherwise the union box of the members that
\* have bounds, of zero area when they all lie on one point or one line.
C24_GroupBounds ==
    gh.done =>
        IF Bounded = {} THEN gh.out = NULL
        ELSE gh.out # NULL /\ UnionOf(gh.out, Bounded)

\* A group of members of zero area got a box that is the bounds of none of
\* them.
C24_Witness ==
    /\ gh.done /\ gh.out # NULL
    /\ Cardinality(Bounded) >= 2
    /\ \A m \in Members : ZeroArea(ObjectBounds(m))
    /\ \A m \in Members : ObjectBounds(m) # gh.out

\* ----------------------------------------------- the draw specification
\* Strokes and shapes are drawn with the eight drawing tools, at zoom 1 or
\* 1.1, each gesture a pointer-down, up to MaxTrail - 1 pointer-moves and a
\* pointer-up; the tool changes between gestures.  gh holds the gesture:
\* its stage, the tool, colour and size at the pointer-down, the pointer
\* points so far in canvas coordinates, and the scene and history at the
\* pointer-down.  The brush size and the colour change once each, while the
\* button is held in the second gesture of a zoomed canvas.
MaxTrail == 3
DrawTools == FreehandTools \cup ShapeTools

NoDraw == [phase |-> "draw", stage |-> "none", tool |-> "", color |-> "", size |-> NULL,
           trail |-> <<>>, before |-> NULL]

DrawInit == EngineInit /\ gh = NoDraw

DrawDown ==
    /\ mounted
    /\ \E p \in Pts :
        /\ DownAt(p, FALSE, DrawTools, Room)
        /\ gh' = [phase |-> "draw", stage |-> "down", tool |-> tool, color |-> color,
                  size |-> size, trail |-> <<screenToCanvas(p.x, p.y)>>,
                  before |-> [objects |-> objects, history |-> history,
                              historyIndex |-> historyIndex,
                              selectedIndices |-> selectedIndices]]

DrawMove ==
    /\ mounted
    /\ isDrawing /\ Len(gh.trail) < MaxTrail
    /\ \E p \in Pts :
        /\ onDrawing(p.x, p.y)
        /\ gh' = [gh EXCEPT !.stage = "move",
                            !.trail = Append(gh.trail, screenToCanvas(p.x, p.y))]

DrawUp ==
    /\ mounted
    /\ isDrawing
    /\ onStopDrawing
    /\ gh' = [gh EXCEPT !.stage = "up"]

DrawZoom ==
    /\ mounted /\ Idle /\ Len(history) = 1
    /\ IF zoom = I(1) THEN zoomIn ELSE zoomOut
    /\ gh' = NoDraw

Repainting == isDrawing /\ Len(objects) = 1 /\ zoom # I(1)
DrawSize == mounted /\ Repainting /\ size = I(5) /\ sizeUp /\ UNCHANGED gh
DrawColor == mounted /\ Repainting /\ color = "#000000" /\ setColor("#ef4444") /\ UNCHANGED gh
DrawTool == mounted /\ Room /\ Pick(DrawTools) /\ gh' = NoDraw
DrawFrame == mounted /\ runFrame /\ UNCHANGED gh

DrawNext ==
    \/ DrawDown
    \/ DrawMove
    \/ DrawUp
    \/ DrawZoom
    \/ DrawSize
    \/ DrawColor
    \/ DrawTool
    \/ DrawFrame

SpecDraw == DrawInit /\ [][DrawNext]_vars

\* The gesture has appended one object after the scene of the pointer-down,
\* pushed one snapshot and selected the new object.
AppendedOne ==
    /\ Len(objects) = Len(gh.before.objects) + 1
    /\ SubSeq(objects, 1, Len(gh.before.objects)) = gh.before.objects
    /\ PushedOne(objects)
    /\ selectedIndices = <<Len(objects) - 1>>

\* C25.  A pointer-down with a freehand tool starts a stroke of the
\* pointer-down point alone; each pointer-move appends its point at the end;
\* the pointer-up appends the stroke as the last object of the scene, leaves
\* the objects before it as they were, pushes one snapshot and selects the
\* new object alone.
C25_FreehandGesture ==
    gh.tool \in FreehandTools =>
        IF gh.stage = "up"
        THEN /\ AppendedOne
             /\ objects[Len(objects)].type = "stroke"
             /\ objects[Len(objects)].data.points = gh.trail
             /\ objects[Len(objects)].data.tool = gh.tool
             /\ objects[Len(objects)].data.size = gh.size
             /\ gh.tool # "eraser" => objects[Len(objects)].data.color = gh.color
             /\ ~isDrawing /\ current = NULL
        ELSE /\ isDrawing
             /\ current = [color |-> gh.color, size |-> gh.size, tool |-> gh.tool,
                           points |-> gh.trail]
             /\ gh.stage = "down" => Len(current.points) = 1
             /\ objects = gh.before.objects
             /\ history = gh.before.history

\* A pen stroke of three different points was appended to a scene of one
\* object, at zoom 1.1.
C25_Witness ==
    /\ gh.stage = "up" /\ gh.tool = "pen"
    /\ Len(gh.trail) = 3 /\ gh.trail[1] # gh.trail[2] /\ gh.trail[2] # gh.trail[3]
    /\ Len(objects) = 2
    /\ zoom # I(1)

\* C26.  A pointer-down with a shape tool starts a shape of the tool's type
\* whose start and end are the pointer-down point; each pointer-move changes
\* the end alone, whatever the brush size and colour have become; the
\* pointer-up appends the shape, its end at the point of the last
\* pointer-move, as the last object of the scene.
C26_ShapeGesture ==
    gh.tool \in ShapeTools =>
        IF gh.stage = "up"
        THEN /\ AppendedOne
             /\ objects[Len(objects)].type = "shape"
             /\ objects[Len(objects)].data =
                    [color |-> gh.color, size |-> gh.size, tool |-> gh.tool,
                     type |-> gh.tool, start |-> gh.trail[1],
                     end |-> gh.trail[Len(gh.trail)]]
             /\ ~isDrawing /\ current = NULL
        ELSE /\ isDrawing
             /\ current = [color |-> gh.color, size |-> gh.size, tool |-> gh.tool,
                           type |-> gh.tool, start |-> gh.trail[1],
                           end |-> gh.trail[Len(gh.trail)]]
             /\ gh.stage = "down" => current.start = current.end
             /\ objects = gh.before.objects
             /\ history = gh.before.history

\* An arrow whose end was moved twice, the brush size and the colour changed
\* on the way, was appended to a scene of one object.
C26_Witness ==
    /\ gh.stage = "up" /\ gh.tool = "arrow"
    /\ Len(gh.trail) = 3 /\ gh.trail[1] # gh.trail[3] /\ gh.trail[2] # gh.trail[3]
    /\ Len(objects) = 2
    /\ objects[2].data.end = gh.trail[3] /\ objects[2].data.start = gh.trail[1]
    /\ size # gh.size /\ color # gh.color

\* ------------------------------------------------ the hit specification
\* getPosition, applied to every scene of MaxGroup objects among
\* GroupObjects and every point of HitPts, with and without a 2d context.
\* gh holds the input and, once the function is applied, its result.
HitPts == {IPt(0, 0), IPt(5, 10), IPt(8, 8), IPt(22, 10), IPt(100, 100)}

HitInit ==
    /\ EngineInit
    /\ gh \in {[phase |-> "hit", objs |-> objs, p |-> p, ctx |-> ctx,
                done |-> FALSE, out |-> NULL] :
                 objs \in {q \in SeqsUpTo(GroupObjects, MaxGroup) : Len(q) = MaxGroup},
                 p \in HitPts, ctx \in BOOLEAN}

HitApply ==
    /\ ~gh.done
    /\ gh' = [gh EXCEPT !.done = TRUE,
                        !.out = getPositionIn(gh.objs, gh.ctx, gh.p.x, gh.p.y)]
    /\ UNCHANGED engineVars

HitNext ==
    \/ HitApply

SpecHit == HitInit /\ [][HitNext]_vars

\* The bounding box of the object at index i holds the point; a text has no
\* box without a 2d context.
Holds(i) ==
    LET b == ObjectBounds(At(gh.objs, i))
    IN  /\ At(gh.objs, i).type # "text" \/ gh.ctx
        /\ QLe(b.x, gh.p.x) /\ QLe(gh.p.x, QAdd(b.x, b.width))
        /\ QLe(b.y, gh.p.y) /\ QLe(gh.p.y, QAdd(b.y, b.height))

\* C27.  getPosition returns an index whose bounding box holds the point
\* and above which no bounding box holds it, and null when no bounding box
\* holds the point.
C27_TopmostHit ==
    gh.done =>
        IF \E i \in 0..(MaxGroup - 1) : Holds(i)
        THEN /\ gh.out \in 0..(MaxGroup - 1)
             /\ Holds(gh.out)
             /\ \A j \in 0..(MaxGroup - 1) : j > gh.out => ~Holds(j)
        ELSE gh.out = NoIndex

\* The point lies in the boxes of the first two objects and not in the
\* third: the second is returned.
C27_Witness ==
    /\ gh.done /\ gh.out = 1
    /\ Holds(0) /\ Holds(1) /\ ~Holds(2)
    /\ gh.objs[1] # gh.objs[2]

\* -------------------------------------------- the reshape specification
\* Strokes, rectangles, lines, circles and a text are drawn from the origin,
\* selected alone or together, and resized by a handle dragged over
\* ReshapePts; a pointer-down also lands where a handle of a selection
\* without area would be.  gh holds the resize in flight: its stage, the
\* handle and the bounds of the selection at the pointer-down, the point of
\* the first pointer-move and the scene it gave, the points of the last two
\* pointer-moves and the number of pointer-moves.
DrawnTo == {IPt(100, 100), IPt(100, 0)}
ReshapePts == {IPt(150, 150), IPt(150, 105), IPt(60, 120)}
ReshapeTools == {"select", "pen", "rectangle", "line", "circle", "text"}

NoReshape == [phase |-> "reshape", stage |-> "none", handle |-> NoHandle, bounds |-> NULL,
              first |-> NULL, direct |-> NULL, prev |-> NULL, p |-> NULL, n |-> 0]

ReshapeInit == EngineInit /\ gh = NoReshape

\* The type and data of every object of the scene.
Geometry(objs) == [k \in 1..Len(objs) |-> [type |-> objs[k].type, data |-> objs[k].data]]

ReshapeDraw ==
    /\ mounted
    /\ tool # "select"
    /\ DownAt(IPt(0, 0), FALSE, ReshapeTools, Room)
    /\ gh' = NoReshape

ReshapeType == mounted /\ Type({"hi"}) /\ gh' = NoReshape

ReshapeGrab ==
    /\ mounted
    /\ Idle /\ ~isEditingText
    /\ tool = "select"
    /\ LastRoom
    /\ \E handle \in Handles :
        /\ GrabAt(handle, getGroupBounds(objects, selectedIndices, TRUE))
        /\ gh' = [NoReshape EXCEPT !.stage = "grab", !.handle = handle,
                      !.bounds = getGroupBounds(objects, selectedIndices, TRUE)]

\* A pointer-down where a handle of the selection would be, the bounds of
\* the selection having no width or no height.
ReshapeMiss ==
    /\ mounted
    /\ Idle /\ ~isEditingText
    /\ tool = "select"
    /\ LastRoom
    /\ getGroupBounds(objects, selectedIndices, TRUE) # NULL
    /\ \/ getGroupBounds(objects, selectedIndices, TRUE).width = I(0)
       \/ getGroupBounds(objects, selectedIndices, TRUE).height = I(0)
    /\ \E handle \in Handles :
        /\ onStartDrawing(
              HandleCentre(handle, getGroupBounds(objects, selectedIndices, TRUE)).x,
              HandleCentre(handle, getGroupBounds(objects, selectedIndices, TRUE)).y, FALSE)
        /\ gh' = [NoReshape EXCEPT !.stage = "miss", !.handle = handle,
                      !.bounds = getGroupBounds(objects, selectedIndices, TRUE)]

ReshapeMove ==
    /\ mounted
    /\ isResizing \/ (isDrawing /\ tool # "select")
    /\ \E p \in (IF isResizing THEN ReshapePts ELSE DrawnTo) :
        /\ tool = "circle" => p = IPt(100, 0)
        /\ isResizing => gh.n < MaxTrail
        /\ MoveTo(p)
        /\ gh' = IF isResizing
                 THEN [gh EXCEPT !.stage = "move", !.n = gh.n + 1, !.prev = gh.p, !.p = p,
                                 !.first = IF gh.n = 0 THEN p ELSE gh.first,
                                 !.direct = IF gh.n = 0 THEN Geometry(objects')
                                            ELSE gh.direct]
                 ELSE gh

ReshapeUp ==
    /\ mounted
    /\ UpIn(LastRoom)
    /\ gh' = IF isResizing /\ gh.stage = "move" THEN [gh EXCEPT !.stage = "up"] ELSE NoReshape

ReshapeSelectAll == mounted /\ Idle /\ handleSelectAll /\ gh' = NoReshape
ReshapeTool == mounted /\ Pick(ReshapeTools) /\ gh' = NoReshape

ReshapeNext ==
    \/ ReshapeDraw
    \/ ReshapeType
    \/ ReshapeGrab
    \/ ReshapeMiss
    \/ ReshapeMove
    \/ ReshapeUp
    \/ ReshapeSelectAll
    \/ ReshapeTool

SpecReshape == ReshapeInit /\ [][ReshapeNext]_vars

\* C28.  In one resize gesture, a pointer-move at the point of the first
\* pointer-move gives the scene the first pointer-move gave, whatever the
\* pointer-moves between them; the pointer-up keeps that scene.
C28_ResizeFromOriginals ==
    (gh.stage \in {"move", "up"} /\ gh.p = gh.first) => Geometry(objects) = gh.direct

\* The pointer went to a point, to another point and back; the scene is that
\* of the first pointer-move and not that of the pointer-down.
C28_Witness ==
    /\ gh.stage = "move" /\ gh.n = 3
    /\ gh.p = gh.first /\ gh.prev # gh.p
    /\ Geometry(objects) = gh.direct
    /\ Geometry(objects) # Geometry(history[historyIndex + 1])
    /\ Len(selectedIndices) = 2

\* The corner of the bounds b diagonally opposite the handle.
OppositeCorner(handle, b) ==
    [x |-> IF handle \in {"top-left", "bottom-left"} THEN QAdd(b.x, b.width) ELSE b.x,
     y |-> IF handle \in {"top-left", "top-right"} THEN QAdd(b.y, b.height) ELSE b.y]

\* The corner opposite the handle is where it was at the pointer-down.
AnchorKept ==
    OppositeCorner(gh.handle, getGroupBounds(objects, selectedIndices, TRUE)) =
        OppositeCorner(gh.handle, gh.bounds)

\* C29.  After every pointer-move of a resize, the corner of the bounds of
\* the selection diagonally opposite the handle is where it was at the
\* pointer-down.
C29_AnchorFixed == gh.stage = "move" => AnchorKept

\* The selected object at position i of the selection is a circle or a text.
RoundOrText(i) ==
    LET obj == At(objects, At(selectedIndices, i))
    IN  obj.type = "text" \/ (obj.type = "shape" /\ obj.data.type = "circle")

\* After every pointer-move of a resize of strokes, rectangles and lines,
\* the corner opposite the handle is where it was at the pointer-down.
AnchorFixedForPolylines ==
    (gh.stage = "move" /\ \A i \in 0..(Len(selectedIndices) - 1) : ~RoundOrText(i))
        => AnchorKept

\* C30.  While a resize is in flight the bounds captured at its pointer-down
\* have a width and a height above zero; a pointer-down where a handle of a
\* selection without width or height would be starts no resize.
C30_NoFlatResize ==
    /\ isResizing =>
            /\ initialBounds # NULL
            /\ QLt(I(0), initialBounds.width)
            /\ QLt(I(0), initialBounds.height)
    /\ gh.stage = "miss" => ~isResizing

\* The pointer went down where a handle of a horizontal line would be, and
\* no resize is in flight.
C30_Witness ==
    /\ gh.stage = "miss" /\ ~isResizing
    /\ gh.bounds.height = I(0) /\ gh.bounds.width = I(100)
    /\ Len(objects) = 2

\* --------------------------------------------- the render specification
\* Pen and eraser strokes are drawn and the canvas is panned, the theme
\* changes at any time, and animation frames run at any time; the canvas is
\* watched.  After a frame gh holds the scene and the history the frame
\* found and the calls of scheduleRender() it served.
RenderTools == {"pen", "eraser", "hand"}

NoFrame == [phase |-> "render", stage |-> "none", before |-> NULL, calls |-> 0]

RenderInit == HookStart(TRUE, TRUE) /\ gh = NoFrame

\* One stroke is drawn, and the canvas is panned from where it was at first.
RenderDown ==
    /\ mounted
    /\ IF tool = "hand" THEN canvasOffset = IPt(0, 0) ELSE Len(objects) = 0
    /\ \E p \in Pts : DownAt(p, FALSE, RenderTools, Room)
    /\ gh' = NoFrame
RenderMove == mounted /\ (isDrawing \/ isPanning) /\ Move(Pts) /\ gh' = NoFrame
RenderUp == mounted /\ (isDrawing \/ isPanning) /\ Up /\ gh' = NoFrame
RenderTheme == mounted /\ setTheme /\ gh' = NoFrame
RenderTool == mounted /\ Pick(RenderTools) /\ gh' = NoFrame

RenderFrame ==
    /\ mounted
    /\ runFrame
    /\ gh' = [phase |-> "render", stage |-> "frame",
              before |-> [objects |-> objects, history |-> history],
              calls |-> screen.calls]

RenderNext ==
    \/ RenderDown
    \/ RenderMove
    \/ RenderUp
    \/ RenderTheme
    \/ RenderTool
    \/ RenderFrame

SpecRender == RenderInit /\ [][RenderNext]_vars

\* C31.  The render of an animation frame leaves every object of the scene
\* and every snapshot of the history as it found them, the colour of the
\* eraser strokes included.
C31_RenderLeavesModel ==
    gh.stage = "frame" => objects = gh.before.objects /\ history = gh.before.history

\* objs with the colour of its eraser strokes left out.
ButEraserColor(objs) == View(objs, NULL, <<>>, I(1), IPt(0, 0)).objects

\* The render of an animation frame changes nothing but the colour of
\* eraser strokes.
RenderLeavesAllButEraserColor ==
    gh.stage = "frame" =>
        /\ ButEraserColor(objects) = ButEraserColor(gh.before.objects)
        /\ Len(history) = Len(gh.before.history)
        /\ \A k \in 1..Len(history) :
                ButEraserColor(history[k]) = ButEraserColor(gh.before.history[k])

\* C32.  At most one animation-frame callback asked for by scheduleRender()
\* is pending; one is pending exactly when scheduleRender() was called since
\* the last frame, however often; the frame that runs leaves none pending.
C32_RenderCoalescing ==
    /\ screen.pending \in {0, 1}
    /\ screen.calls > 0 <=> screen.pending = 1
    /\ needsRender <=> screen.pending = 1
    /\ gh.stage = "frame" => screen.pending = 0 /\ screen.calls = 0

\* A frame has served three calls or more of scheduleRender().
C32_Witness ==
    /\ gh.stage = "frame" /\ gh.calls = MaxCalls
    /\ screen.pending = 0

\* ----------------------------------------------- the editing specification
\* Pen strokes, rectangles and a text are drawn from the origin, selected by
\* a click or all together, dragged over EditPts and resized by a handle
\* dragged over EditPts, MaxGestures gestures at most; a pointer-move also
\* lands on the point of the pointer-down, and Ctrl+A may be pressed once
\* while the button is held; after the pointer-up of a gesture comes an undo
\* or the next gesture.  Nothing is deleted or cleared.  gh holds the gesture: its stage and kind,
\* the point of the pointer-down, whether the last pointer-move was at that
\* point, whether the pointer moved at all, the geometry of the scene and of
\* every snapshot at the pointer-down with the history cursor, the identity
\* of every object as it was when it was drawn, the kinds of the gestures
\* that moved and committed, whether Ctrl+A was pressed in this gesture
\* (keyed) and whether it never was in any (plain).
MaxGestures == 2
EditDrawn == {IPt(100, 100), IPt(5, 100)}
EditClicks == {IPt(2, 50)}
EditPts == {IPt(150, 150), IPt(60, 120)}
EditTools == {"select", "pen", "rectangle", "text"}

\* The fields of an object that say what it is: its variant tag, shape type,
\* text string, colour, tool and number of stroke points.
Signature(obj) ==
    [type |-> obj.type,
     shape |-> IF obj.type = "shape" THEN obj.data.type ELSE "",
     text |-> IF obj.type = "text" THEN obj.data.text ELSE "",
     color |-> obj.data.color,
     tool |-> IF Has(obj.data, "tool") THEN obj.data.tool ELSE "",
     points |-> IF obj.type = "stroke" THEN Len(obj.data.points) ELSE 0]

Signatures(objs) == [k \in 1..Len(objs) |-> Signature(objs[k])]

\* The type and data of every object of every snapshot.
GeometryAll(h) == [k \in 1..Len(h) |-> Geometry(h[k])]

NoEdit ==
    [phase |-> "edit", stage |-> "none", kind |-> "none", p0 |-> NULL, held |-> FALSE,
     moved |-> FALSE, before |-> NULL, hist |-> NULL, index |-> 0, sig |-> <<>>,
     done |-> {}, n |-> 0, keyed |-> FALSE, plain |-> TRUE]

\* The bookkeeping between two gestures.
Rest == [gh EXCEPT !.stage = "none", !.kind = "none", !.p0 = NULL, !.held = FALSE,
                   !.moved = FALSE, !.before = NULL, !.hist = NULL, !.index = 0,
                   !.keyed = FALSE]

\* The bookkeeping at the pointer-down at p0 of a gesture.
Began(kind, p0) ==
    [gh EXCEPT !.stage = "down", !.kind = kind, !.p0 = p0, !.held = FALSE,
               !.moved = FALSE, !.before = Geometry(objects),
               !.hist = GeometryAll(history), !.index = historyIndex, !.n = gh.n + 1,
               !.keyed = FALSE]

EditInit == EngineInit /\ gh = NoEdit

EditDraw ==
    /\ mounted
    /\ tool # "select"
    /\ DownAt(IPt(0, 0), FALSE, EditTools, Room)
    /\ gh' = Rest

EditType ==
    /\ mounted
    /\ Type({"hi"})
    /\ gh' = [Rest EXCEPT !.sig = Signatures(objects')]

EditDrawTo ==
    /\ mounted
    /\ isDrawing /\ tool # "select"
    /\ \E p \in EditDrawn : MoveTo(p)
    /\ gh' = Rest

\* A pointer-down on an object and on no handle.
EditClick ==
    /\ mounted
    /\ Idle /\ ~isEditingText
    /\ tool = "select"
    /\ gh.n < MaxGestures
    /\ LastRoom
    /\ \E p \in EditClicks, shiftKey \in BOOLEAN :
        /\ getPosition(p.x, p.y) # NoIndex
        /\ onStartDrawing(p.x, p.y, shiftKey)
        /\ isDragging'
        /\ gh' = Began("drag", p)

\* A pointer-down on the centre of a handle of the selection.
EditGrab ==
    /\ mounted
    /\ Idle /\ ~isEditingText
    /\ tool = "select"
    /\ gh.n < MaxGestures
    /\ LastRoom
    /\ \E handle \in {"bottom-right"} :
        /\ GrabAt(handle, getGroupBounds(objects, selectedIndices, TRUE))
        /\ gh' = Began("resize",
                       HandleCentre(handle, getGroupBounds(objects, selectedIndices, TRUE)))

EditMove ==
    /\ mounted
    /\ isDragging \/ isResizing
    /\ gh.stage \in {"down", "move"}
    /\ \E p \in EditPts :
        /\ MoveTo(p)
        /\ gh' = [gh EXCEPT !.stage = "move", !.held = FALSE, !.moved = TRUE]

\* A pointer-move at the point of the pointer-down.
EditHold ==
    /\ mounted
    /\ isDragging \/ isResizing
    /\ gh.stage \in {"down", "move"}
    /\ ~gh.held
    /\ onDrawing(gh.p0.x, gh.p0.y)
    /\ gh' = [gh EXCEPT !.stage = "move", !.held = TRUE]

EditUp ==
    /\ mounted
    /\ UpIn(LastRoom)
    /\ gh' = IF gh.stage \in {"down", "move"}
             THEN [gh EXCEPT !.stage = "up",
                             !.done = IF gh.moved THEN gh.done \cup {gh.kind} ELSE gh.done]
             ELSE IF Commits THEN [Rest EXCEPT !.sig = Signatures(objects')]
             ELSE Rest

\* Ctrl+A while the button is held, once in a gesture.
EditKey ==
    /\ mounted
    /\ isDragging \/ isResizing
    /\ gh.stage \in {"down", "move"}
    /\ ~gh.keyed
    /\ Len(selectedIndices) < Len(objects)
    /\ handleSelectAll
    /\ gh' = [gh EXCEPT !.keyed = TRUE, !.plain = FALSE]

\* The undo that follows the pointer-up of a gesture.
EditUndo ==
    /\ mounted
    /\ ~isEditingText
    /\ gh.stage = "up"
    /\ undo
    /\ gh' = [gh EXCEPT !.stage = "undone"]

EditSelectAll ==
    /\ mounted
    /\ Idle /\ Len(selectedIndices) < Len(objects)
    /\ handleSelectAll
    /\ gh' = Rest
EditTool == mounted /\ LastRoom /\ gh.n = 0 /\ Pick(EditTools) /\ gh' = Rest

EditNext ==
    \/ EditDraw
    \/ EditType
    \/ EditDrawTo
    \/ EditClick
    \/ EditGrab
    \/ EditMove
    \/ EditHold
    \/ EditKey
    \/ EditUp
    \/ EditUndo
    \/ EditSelectAll
    \/ EditTool

SpecEdit == EditInit /\ [][EditNext]_vars

\* C33.  Through any sequence of drag and resize gestures, with no delete,
\* clear, undo or redo, the object at each index keeps the variant tag, shape
\* type, text string, colour, tool and number of stroke points it was drawn
\* with.
C33_IdentityKept == Signatures(objects) = gh.sig

\* The same for the gestures during which no key is pressed.
IdentityKeptByGestures == gh.plain => Signatures(objects) = gh.sig

\* A stroke and a text were dragged and then resized together: they are
\* elsewhere, and what they are is as drawn.
DraggedAndResized ==
    /\ gh.plain
    /\ gh.stage = "up" /\ gh.done = {"drag", "resize"}
    /\ Len(objects) = 2
    /\ objects[1].type = "stroke" /\ objects[2].type = "text"
    /\ Geometry(objects) # gh.before
    /\ Signatures(objects) = gh.sig

\* The last pointer event of a resize was a pointer-move at the point of the
\* pointer-down.
HeldResize == gh.stage = "move" /\ gh.kind = "resize" /\ gh.held

\* C36.  During a resize, of one object or of a group and whatever the size of
\* the bounds at the pointer-down, a pointer-move at the point of the
\* pointer-down leaves every selected object equal to its copy of before the
\* resize.
C36_ZeroMoveIdentity == HeldResize => Geometry(objects) = gh.before

\* The same for one selected object whose bounds are at least minSize wide
\* and high.
ZeroMoveIdentityOfOne ==
    (/\ HeldResize
     /\ Len(selectedIndices) = 1
     /\ QLe(I(minSize), initialBounds.width)
     /\ QLe(I(minSize), initialBounds.height)) => Geometry(objects) = gh.before

\* A group, or one object narrower than minSize, was rescaled by the
\* pointer-move at the point of the pointer-down.
ZeroMoveRescaledGroup ==
    HeldResize /\ Len(selectedIndices) = 2 /\ Geometry(objects) # gh.before
ZeroMoveRescaledNarrow ==
    /\ HeldResize /\ Len(selectedIndices) = 1
    /\ ~QLe(I(minSize), initialBounds.width)
    /\ Geometry(objects) # gh.before

\* C38.  No pointer-move of a drag or of a resize changes a snapshot of the
\* history: until the pointer-up the history is that of the pointer-down; the
\* pointer-up pushes one snapshot behind those up to the cursor; and the undo
\* that follows gives every object the geometry it had before the
\* pointer-down.
C38_SnapshotsKept ==
    /\ gh.stage \in {"down", "move"} =>
        /\ GeometryAll(history) = gh.hist
        /\ historyIndex = gh.index
    /\ gh.stage = "up" =>
        /\ historyIndex = gh.index + 1
        /\ Len(history) = gh.index + 2
        /\ GeometryAll(SubSeq(history, 1, gh.index + 1)) = SubSeq(gh.hist, 1, gh.index + 1)
        /\ Geometry(At(history, historyIndex)) = Geometry(objects)
    /\ gh.stage = "undone" =>
        /\ historyIndex = gh.index
        /\ Geometry(objects) = gh.before

\* Two objects were dragged and then resized together, the resize was undone,
\* and the scene is the one the drag left, not the one the resize left.
C38_Witness ==
    /\ gh.stage = "undone" /\ gh.kind = "resize" /\ gh.moved
    /\ gh.done = {"drag", "resize"}
    /\ Len(objects) = 2
    /\ Geometry(objects) = gh.before
    /\ Geometry(objects) # Geometry(At(history, historyIndex + 1))
    /\ Geometry(objects) # Geometry(At(history, historyIndex - 1))

\* ------------------------------------------- the interruption specification
\* Pen strokes and rectangles are drawn from the origin, which selects the
\* one drawn, or are selected all with Ctrl+A, and are resized by a handle
\* dragged over EditPts; while the button is held the keyboard runs Ctrl+A,
\* undo, redo, clear and Delete, MaxKeys different keys at most in a gesture;
\* there are MaxMeddles resizes at most.  gh holds
\* the resize: its stage, the selection and the geometry of the scene at the
\* pointer-down, the keys pressed since, and for the last pointer-move the
\* geometry of the scene before it and, for every index of the scene of the
\* pointer-down, the resize of the object the index held at the pointer-down.
MaxMeddles == 1
MaxKeys == 2
MeddleTools == {"select", "pen", "rectangle"}
MeddleKeys == {"a", "z", "y", "c", "delete"}

NoMeddle ==
    [phase |-> "meddle", stage |-> "none", sel |-> <<>>, before |-> <<>>, keys |-> {},
     pre |-> <<>>, derived |-> <<>>, n |-> 0]

\* The bookkeeping outside a resize.
Calm == [NoMeddle EXCEPT !.n = gh.n]

MeddleInit == EngineInit /\ gh = NoMeddle

MeddleDraw ==
    /\ mounted
    /\ tool # "select"
    /\ DownAt(IPt(0, 0), FALSE, MeddleTools, Room)
    /\ gh' = Calm

MeddleDrawTo ==
    /\ mounted
    /\ isDrawing /\ tool # "select"
    /\ \E p \in EditDrawn : MoveTo(p)
    /\ gh' = Calm

MeddleSelectAll ==
    /\ mounted
    /\ Idle /\ Len(selectedIndices) < Len(objects)
    /\ handleSelectAll
    /\ gh' = Calm

MeddleGrab ==
    /\ mounted
    /\ Idle /\ ~isEditingText
    /\ tool = "select"
    /\ LastRoom
    /\ gh.n < MaxMeddles
    /\ \E handle \in {"top-left", "bottom-right"} :
        GrabAt(handle, getGroupBounds(objects, selectedIndices, TRUE))
    /\ gh' = [NoMeddle EXCEPT !.stage = "down", !.sel = selectedIndices,
                              !.before = Geometry(objects), !.n = gh.n + 1]

\* A key of the page while the button is held on a handle.
MeddleKey ==
    /\ mounted
    /\ isResizing
    /\ Cardinality(gh.keys) < MaxKeys
    /\ \E key \in MeddleKeys \ gh.keys :
        /\ CASE key = "a" -> handleSelectAll
             [] key = "z" -> undo
             [] key = "y" -> redo
             [] key = "c" -> clear
             [] OTHER -> deleteSelected
        /\ gh' = [gh EXCEPT !.stage = "key", !.keys = gh.keys \cup {key}]

MeddleMove ==
    /\ mounted
    /\ isResizing
    /\ \E p \in EditPts :
        /\ MoveTo(p)
        /\ gh' = [gh EXCEPT
                    !.stage = "move",
                    !.pre = Geometry(objects),
                    !.derived =
                        LET q == screenToCanvas(p.x, p.y)
                            sc == IF Len(selectedIndices) > 1 THEN GroupScale(q.x, q.y)
                                  ELSE SingleScale(q.x, q.y)
                        IN  [k \in 1..Len(gh.before) |->
                                resizeObject(gh.before[k], sc.newBounds, initialBounds,
                                             sc.scaleX, sc.scaleY, sc.anchor)]]

MeddleUp ==
    /\ mounted
    /\ UpIn(historyIndex < MaxHistory)
    /\ gh' = Calm

MeddleTool == mounted /\ LastRoom /\ Pick(MeddleTools) /\ gh' = Calm

MeddleNext ==
    \/ MeddleDraw
    \/ MeddleDrawTo
    \/ MeddleSelectAll
    \/ MeddleGrab
    \/ MeddleKey
    \/ MeddleMove
    \/ MeddleUp
    \/ MeddleTool

SpecMeddle == MeddleInit /\ [][MeddleNext]_vars

\* The indices the last pointer-move wrote a different object at.
Written == {i \in 0..(Len(objects) - 1) : Geometry(objects)[i + 1] # gh.pre[i + 1]}

\* Index i was selected at the pointer-down, and the object at i is the
\* resize of the object i held at the pointer-down.
OwnResize(i) ==
    /\ Includes(gh.sel, i)
    /\ Geometry(objects)[i + 1] = gh.derived[i + 1]

\* C37.  A pointer-move of a resize writes only at indices that were selected
\* at the pointer-down, and what it writes at index i is the resize of the
\* copy of the object index i held at the pointer-down; also when Ctrl+A,
\* undo, redo, clear or Delete ran since the pointer-down.
C37_ResizeWritesItsOwn == gh.stage = "move" => \A i \in Written : OwnResize(i)

\* The same for the gestures during which Ctrl+A was not pressed.
ResizeWritesItsOwnButSelectAll ==
    (gh.stage = "move" /\ "a" \notin gh.keys) => \A i \in Written : OwnResize(i)

\* After an undo, a redo, a clear or a Delete that acted during the gesture,
\* which leaves nothing selected, the pointer-move wrote nothing.
CommandEndsResizing ==
    (gh.stage = "move" /\ "a" \notin gh.keys /\ selectedIndices # gh.sel) => Written = {}

\* The second of two objects was selected; after Ctrl+A the pointer-move
\* wrote at index 0, which was not selected.
WroteUnselected ==
    /\ gh.stage = "move" /\ gh.keys = {"a"}
    /\ gh.sel = <<1>> /\ Written = {0}

\* ---------------------------------------------- the painting specification
\* The canvas is watched.  One pen stroke is drawn and the canvas is panned
\* from where it was at first, with animation frames at any time; at some
\* moment the input stops (gh.quiet), after which only animation frames run.
\* The browser runs a callback it was asked to run: the frame is weakly
\* fair.
PaintTools == {"pen", "hand"}

Busy == [phase |-> "paint", quiet |-> FALSE]
Quiet_ == [phase |-> "paint", quiet |-> TRUE]

PaintInit == HookStart(TRUE, TRUE) /\ gh = Busy

PaintDown ==
    /\ mounted
    /\ ~gh.quiet
    /\ IF tool = "hand" THEN canvasOffset = IPt(0, 0) ELSE Len(objects) = 0
    /\ \E p \in Pts : DownAt(p, FALSE, PaintTools, Room)
    /\ UNCHANGED gh

PaintMove ==
    /\ mounted
    /\ ~gh.quiet
    /\ isDrawing \/ isPanning
    /\ Move(Pts)
    /\ UNCHANGED gh

PaintUp ==
    /\ mounted
    /\ ~gh.quiet
    /\ isDrawing \/ isPanning
    /\ Up
    /\ UNCHANGED gh

PaintTool == mounted /\ ~gh.quiet /\ Pick(PaintTools) /\ UNCHANGED gh

\* The last event has been handled.
PaintStop ==
    /\ mounted
    /\ ~gh.quiet
    /\ gh' = Quiet_
    /\ UNCHANGED engineVars

PaintFrame == mounted /\ runFrame /\ UNCHANGED gh

PaintNext ==
    \/ PaintDown
    \/ PaintMove
    \/ PaintUp
    \/ PaintTool
    \/ PaintStop
    \/ PaintFrame

SpecPaint == PaintInit /\ [][PaintNext]_vars /\ WF_vars(PaintFrame)

\* The canvas shows the scene, the gesture in progress, the selection and
\* the viewport of the state.
Painted == screen.shown = View(objects, current, selectedIndices, zoom, canvasOffset)

\* C34.  Once the state changes no more, a frame painted from the final
\* objects, current, selectedIndices and viewport is on the canvas at some
\* time: a call of scheduleRender() that was dropped does not leave the last
\* painted frame stale for ever.
C34_EventuallyPainted == gh.quiet ~> Painted

\* The input has stopped outside a gesture, no callback is pending, and the
\* canvas shows another viewport than the state has.
StaleForEver ==
    /\ gh.quiet /\ ~needsRender /\ Idle
    /\ ~Painted
    /\ screen.shown.canvasOffset # canvasOffset

====
